---- MODULE Spec2Model ----
(***************************************************************************)
(* SimpleCalendar (src/calendar.js, lines 1484-2756: the variant with one  *)
(* shared calendar control that is attached to the focused field).         *)
(*                                                                         *)
(* Strings are sequences of one-character strings.  A Date object is a     *)
(* record [y, mo, d, h, mi, s] with the JavaScript month index mo in       *)
(* 0..11.                                                                  *)
(***************************************************************************)
EXTENDS Integers, Sequences, FiniteSets, TLC

VARIABLES
    calendar,   \* SimpleCalendar.calendar (the shared control), null before create_calendar
    fields,     \* the input fields of the document, with the properties the code puts on them
    orphans,    \* registered listeners that no cleanup function refers to any more
    timers,     \* pending setTimeout callbacks, in firing order
    focused,    \* the element that holds the keyboard focus, or "none"
    sinceBlur,  \* time since the most recent blur handler ran, saturating at Delay
    clock,      \* the local date and time new Date() returns
    log,        \* what the last event handler did
    handler,    \* SimpleCalendar.handler: the hide/show callback, or "null"
    escape_observed, \* handle_escape is registered for keydown on the window
    probe       \* input and output of a function applied on its own (CodecSpec, GridSpec)

vars == <<calendar, fields, orphans, timers, focused, sinceBlur, clock, log, handler,
          escape_observed, probe>>

\* null where a Date or the calendar object is expected
null == [isNull |-> TRUE]
\* null where a field is expected (calendar.my_field)
NoField == "null"
\* null where a function is expected (SimpleCalendar.handler)
NoHandler == "null"
\* an array element that was never assigned
undefined == <<"undefined">>
\* the result of RegExp.exec when nothing matches
NoMatch == [ok |-> FALSE, caps |-> <<>>]

----------------------------------------------------------------------------
(* The JavaScript Date object, as far as the code uses it.                 *)

IsLeap(y) == (y % 4 = 0 /\ y % 100 # 0) \/ y % 400 = 0

\* The day number of day doy (counted from March 1st) of year yoe of an era of
\* 400 years; day 0 is 1970-01-01.
DayOfEra(era, yoe, doy) ==
    era * 146097 + (yoe * 365 + yoe \div 4 - yoe \div 100 + doy) - 719468

\* Days since 1970-01-01 of the proleptic Gregorian date y-m-d, m in 1..12.
DaysFromCivil(y, m, d) ==
    LET yy == IF m <= 2 THEN y - 1 ELSE y
        mp == IF m > 2 THEN m - 3 ELSE m + 9
    IN  DayOfEra(yy \div 400, yy % 400, (153 * mp + 2) \div 5 + d - 1)

\* <<y, m, d>> of day doy (counted from March 1st) of year yoe of the era.
CivilOfYear(era, yoe, doy) ==
    LET mp == (5 * doy + 2) \div 153
        m  == IF mp < 10 THEN mp + 3 ELSE mp - 9
        y  == yoe + era * 400
    IN  <<IF m <= 2 THEN y + 1 ELSE y, m, doy - (153 * mp + 2) \div 5 + 1>>

YearOfEra(doe) == (doe - doe \div 1460 + doe \div 36524 - doe \div 146096) \div 365

CivilOfDay(era, doe, yoe) ==
    CivilOfYear(era, yoe, doe - (365 * yoe + yoe \div 4 - yoe \div 100))

CivilOfEra(era, doe) == CivilOfDay(era, doe, YearOfEra(doe))

\* The date of day number z, as <<y, m, d>> with m in 1..12.
CivilFromDays(z) == CivilOfEra((z + 719468) \div 146097, (z + 719468) % 146097)

WithTime(c, h, mi, s) ==
    [y |-> c[1], mo |-> c[2] - 1, d |-> c[3], h |-> h, mi |-> mi, s |-> s]

\* MakeDay/MakeDate: month and day overflow carry into the year and month.
MakeDate(y, mo, d, h, mi, s) ==
    WithTime(CivilFromDays(DaysFromCivil(y + mo \div 12, (mo % 12) + 1, 1) + d - 1),
             h, mi, s)

\* new Date(year, month, day, h, mi, s): a year in 0..99 means 1900 + year.
NewDate(y, mo, d, h, mi, s) ==
    MakeDate(IF y >= 0 /\ y <= 99 THEN 1900 + y ELSE y, mo, d, h, mi, s)

setMonth(dt, mo)   == MakeDate(dt.y, mo, dt.d, dt.h, dt.mi, dt.s)
setFullYear(dt, y) == MakeDate(y, dt.mo, dt.d, dt.h, dt.mi, dt.s)
setDate(dt, d)     == MakeDate(dt.y, dt.mo, d, dt.h, dt.mi, dt.s)
setHours(dt, h)    == [dt EXCEPT !.h = h]
\* setMinutes with the bug of leaving the minutes alone
setMinutes_nothing(dt, mi) == dt
setMinutes(dt, mi) == [dt EXCEPT !.mi = mi]
setSeconds(dt, s)  == [dt EXCEPT !.s = s]

\* getDay(): 0 = Sunday .. 6 = Saturday (1970-01-01 was a Thursday).
getDay(dt) == (DaysFromCivil(dt.y, dt.mo + 1, dt.d) + 4) % 7

----------------------------------------------------------------------------
(* Strings and numbers.                                                    *)

DigitChars == <<"0", "1", "2", "3", "4", "5", "6", "7", "8", "9">>
Digits == {DigitChars[i] : i \in 1..10}
DigitVal(c) == (CHOOSE i \in 1..10 : DigitChars[i] = c) - 1

RECURSIVE ToStr(_)
\* new String(n) of a non-negative integer: its decimal digits.
ToStr(n) == IF n < 10 THEN <<DigitChars[n + 1]>>
            ELSE ToStr(n \div 10) \o <<DigitChars[(n % 10) + 1]>>

RECURSIVE ToNum(_)
\* Number conversion of a string of digits (parseInt, ToNumber).
ToNum(str) == IF str = <<>> THEN 0
              ELSE 10 * ToNum(SubSeq(str, 1, Len(str) - 1)) + DigitVal(str[Len(str)])

IsDigits(str) == \A i \in 1..Len(str) : str[i] \in Digits

\* isNaN(x) of a regex capture: undefined is NaN, a digit string is not.
isNaN(x) == ~IsDigits(x)

\* indexOf of a character, 0-based, -1 when absent.
indexOf(str, c) ==
    IF \E i \in 1..Len(str) : str[i] = c
    THEN (CHOOSE i \in 1..Len(str) : str[i] = c /\ \A j \in 1..(i - 1) : str[j] # c) - 1
    ELSE -1

\* str.replace(/c/, repl): the first occurrence only.
ReplaceFirst(str, c, repl) ==
    LET i == indexOf(str, c)
    IN  IF i = -1 THEN str
        ELSE SubSeq(str, 1, i) \o repl \o SubSeq(str, i + 2, Len(str))

\* the padding of time_to_string with the bug of not padding
Pad2_unpadded(n) == ToStr(n)

\* the two-digit padding of time_to_string
Pad2(n) == LET aux == ToStr(n) IN IF Len(aux) = 1 THEN <<"0">> \o aux ELSE aux

IsSpace(c) == c = " "

RECURSIVE trim(_)
trim(str) ==
    IF str = <<>> THEN str
    ELSE IF IsSpace(str[1]) THEN trim(Tail(str))
    ELSE IF IsSpace(str[Len(str)]) THEN trim(SubSeq(str, 1, Len(str) - 1))
    ELSE str

----------------------------------------------------------------------------
(* FormatCodec: time_to_string and string_to_time.                         *)

TokenLetters == {"Y", "m", "d", "H", "i", "s"}

time_to_string(time, format) ==
    IF time = null THEN <<>>
    ELSE LET t1 == ReplaceFirst(format, "d", Pad2(time.d))
             t2 == ReplaceFirst(t1, "m", Pad2(time.mo + 1))
             t3 == ReplaceFirst(t2, "Y", ToStr(time.y))
             t4 == ReplaceFirst(t3, "H", Pad2(time.h))
             t5 == ReplaceFirst(t4, "i", Pad2(time.mi))
             t6 == ReplaceFirst(t5, "s", Pad2(time.s))
         IN  t6

\* A regular expression is a sequence of atoms: a character of the pattern
\* source not yet interpreted ("raw"), an escaped literal, or a capture group
\* ([0-9]{lo,hi}).
Raw(c)      == [k |-> "raw", c |-> c, lo |-> 0, hi |-> 0]
Lit(c)      == [k |-> "lit", c |-> c, lo |-> 0, hi |-> 0]
Grp(lo, hi) == [k |-> "grp", c |-> "", lo |-> lo, hi |-> hi]

\* pattern.replace(/c/g, "\\c")
EscapeAll(pat, c) ==
    [i \in 1..Len(pat) |-> IF pat[i] = Raw(c) THEN Lit(c) ELSE pat[i]]

\* pattern.replace(/c/, "([0-9]{lo,hi})")
ReplaceToken(pat, c, lo, hi) ==
    IF \E i \in 1..Len(pat) : pat[i] = Raw(c)
    THEN LET i == CHOOSE i \in 1..Len(pat) :
                      pat[i] = Raw(c) /\ \A j \in 1..(i - 1) : pat[j] # Raw(c)
         IN  [pat EXCEPT ![i] = Grp(lo, hi)]
    ELSE pat

\* An atom matches one character: an unescaped "." matches any character.
AtomMatches(a, ch) ==
    IF a.k = "raw" /\ a.c = "." THEN TRUE ELSE a.c = ch

RECURSIVE MatchFrom(_, _, _, _, _), TryGroup(_, _, _, _, _, _)
\* Anchored backtracking match of pat[pi..] against str[si..]; the result
\* carries the sequence of captures, or is NoMatch.
MatchFrom(pat, pi, str, si, caps) ==
    IF pi > Len(pat)
    THEN (IF si > Len(str) THEN [ok |-> TRUE, caps |-> caps] ELSE NoMatch)
    ELSE IF pat[pi].k = "grp" THEN TryGroup(pat, pi, str, si, caps, pat[pi].hi)
    ELSE IF si <= Len(str) /\ AtomMatches(pat[pi], str[si])
         THEN MatchFrom(pat, pi + 1, str, si + 1, caps)
         ELSE NoMatch

\* The greedy quantifier {lo,hi}: the longest repetition first.
TryGroup(pat, pi, str, si, caps, n) ==
    IF n < pat[pi].lo THEN NoMatch
    ELSE LET fits == si + n - 1 <= Len(str) /\ IsDigits(SubSeq(str, si, si + n - 1))
             r    == IF fits
                     THEN MatchFrom(pat, pi + 1, str, si + n,
                                    Append(caps, SubSeq(str, si, si + n - 1)))
                     ELSE NoMatch
         IN  IF r.ok THEN r ELSE TryGroup(pat, pi, str, si, caps, n - 1)

\* new RegExp("^" + pattern + "$").exec(str)
RegExpExec(pat, str) == MatchFrom(pat, 1, str, 1, <<>>)

\* units[i]: result[i + 1], undefined beyond the last group (and for i = -1)
Unit(caps, i) == IF i >= 0 /\ i + 1 <= Len(caps) THEN caps[i + 1] ELSE undefined

\* format.replace(/[^YmdHis]/g, "")
TokenOrder(format) == SelectSeq(format, LAMBDA c : c \in TokenLetters)

validate_date(day, month, year) ==
    IF isNaN(day) \/ isNaN(month) \/ isNaN(year) THEN FALSE
    ELSE LET dd == ToNum(day)
             mm == ToNum(month)
             yy == ToNum(year)
         IN  IF mm < 1 \/ mm > 12 THEN FALSE
             ELSE LET dt == NewDate(yy, mm, 0, 0, 0, 0)
                  IN  ~(dd < 1 \/ dd > dt.d)

\* the pattern with the bug of not escaping "." and "/"
FormatPattern_unescaped(format) ==
    LET p2 == [i \in 1..Len(format) |-> Raw(format[i])]
        p3 == ReplaceToken(p2, "d", 1, 2)
        p4 == ReplaceToken(p3, "m", 1, 2)
        p5 == ReplaceToken(p4, "Y", 4, 4)
        p6 == ReplaceToken(p5, "H", 1, 2)
        p7 == ReplaceToken(p6, "i", 1, 2)
        p8 == ReplaceToken(p7, "s", 1, 2)
    IN  p8

\* The pattern string_to_time builds from the format.
FormatPattern(format) ==
    LET p0 == [i \in 1..Len(format) |-> Raw(format[i])]
        p1 == EscapeAll(p0, ".")
        p2 == EscapeAll(p1, "/")
        p3 == ReplaceToken(p2, "d", 1, 2)
        p4 == ReplaceToken(p3, "m", 1, 2)
        p5 == ReplaceToken(p4, "Y", 4, 4)
        p6 == ReplaceToken(p5, "H", 1, 2)
        p7 == ReplaceToken(p6, "i", 1, 2)
        p8 == ReplaceToken(p7, "s", 1, 2)
    IN  p8

\* The date string_to_time builds from the units of a match; i_year ..
\* i_second are the positions of the tokens in the format, -1 when absent.
UnitsToTime(units, i_year, i_month, i_day, i_hour, i_minute, i_second, now) ==
    LET date_ok  == i_year # -1 /\ i_month # -1 /\ i_day # -1
        time_ok  == i_hour # -1 /\ i_minute # -1
        dt0      == [now EXCEPT !.h = 0, !.mi = 0, !.s = 0]
        dt1      == IF date_ok
                    THEN setMonth(setDate(setFullYear(setMonth(dt0, 0),
                                                      ToNum(Unit(units, i_year))),
                                          ToNum(Unit(units, i_day))),
                                  ToNum(Unit(units, i_month)) - 1)
                    ELSE dt0
        bad(u, max) == isNaN(u) \/ ToNum(u) < 0 \/ ToNum(u) > max
        dt2      == setMinutes(setHours(dt1, IF time_ok THEN ToNum(Unit(units, i_hour))
                                             ELSE 0),
                               IF time_ok THEN ToNum(Unit(units, i_minute)) ELSE 0)
        dt3      == setSeconds(dt2, IF i_second # -1 THEN ToNum(Unit(units, i_second))
                                    ELSE 0)
    IN  IF ~date_ok /\ ~time_ok THEN null
        ELSE IF date_ok /\ ~validate_date(Unit(units, i_day), Unit(units, i_month),
                                          Unit(units, i_year)) THEN null
        ELSE IF time_ok /\ (bad(Unit(units, i_hour), 23) \/ bad(Unit(units, i_minute), 59))
             THEN null
        ELSE IF i_second # -1 /\ bad(Unit(units, i_second), 59) THEN null
        ELSE dt3

\* string_to_time with the bug of not requiring a complete set of tokens
MatchToTime_any_tokens(result, order, now) ==
    IF ~result.ok THEN null
    ELSE LET dt0 == [now EXCEPT !.h = 0, !.mi = 0, !.s = 0]
         IN  IF indexOf(order, "Y") = -1 \/ indexOf(order, "m") = -1
                    \/ indexOf(order, "d") = -1
             THEN (IF indexOf(order, "H") = -1 \/ indexOf(order, "i") = -1
                   THEN dt0
                   ELSE UnitsToTime(result.caps, -1, -1, -1, indexOf(order, "H"),
                                    indexOf(order, "i"), indexOf(order, "s"), now))
             ELSE UnitsToTime(result.caps, indexOf(order, "Y"), indexOf(order, "m"),
                              indexOf(order, "d"), indexOf(order, "H"), indexOf(order, "i"),
                              indexOf(order, "s"), now)

\* string_to_time after the match: result of exec, order of the tokens.
MatchToTime(result, order, now) ==
    IF ~result.ok THEN null
    ELSE UnitsToTime(result.caps, indexOf(order, "Y"), indexOf(order, "m"),
                     indexOf(order, "d"), indexOf(order, "H"), indexOf(order, "i"),
                     indexOf(order, "s"), now)

\* string_to_time(str, format); now is the value of new Date() in the call.
string_to_time(str, format, now) ==
    MatchToTime(RegExpExec(FormatPattern(format), str), TokenOrder(format), now)

----------------------------------------------------------------------------
(* The document: two text inputs, the calendar's controls, the clock.      *)

Fields == {"f1", "f2"}
Controls == {"arrow_left", "month_selector", "year_selector", "arrow_right"}

\* f1 sits in a scrollable panel inside the body, f2 directly in the body.
parentElement(e) ==
    CASE e = "f1"    -> "panel"
      [] e = "panel" -> "body"
      [] e = "f2"    -> "body"
      [] e = "body"  -> "html"
      [] OTHER       -> "none"

\* The delay of the deferred hide (300 ms), in units of 150 ms.
Delay == 2
\* At most this many deferred checks are pending at a time.
MaxTimers == 2

\* Time zones and their offset from UTC in hours.
LocalZone == "Europe/Berlin"
ZoneOffset(z) == CASE z = "Pacific/Kiritimati" -> 14 [] z = "Europe/Berlin" -> 1 [] OTHER -> 0

get_current_time_zone_code == LocalZone

get_time_zone_offset(date, timeZone) == ZoneOffset(timeZone)

\* new Date(date.getTime() + hours)
AddHours(date, hours) ==
    LET t  == date.h + hours
        dd == IF t >= 24 THEN 1 ELSE IF t < 0 THEN -1 ELSE 0
        c  == MakeDate(date.y, date.mo, date.d + dd, t - 24 * dd, date.mi, date.s)
    IN  c

get_current_date(config, now) ==
    LET current_time_zone_offset == get_time_zone_offset(now, get_current_time_zone_code)
        target_time_zone_offset  == get_time_zone_offset(now, config.time_zone)
    IN  AddHours(now, target_time_zone_offset - current_time_zone_offset)

----------------------------------------------------------------------------
(* The state the handlers work on, and the record of what a handler did.   *)

World == [calendar |-> calendar, fields |-> fields, orphans |-> orphans,
          timers |-> timers, log |-> log, handler |-> handler]

NewLog == [error |-> FALSE, attaches |-> 0, positioned |-> <<>>, changes |-> <<>>,
           notified |-> 0]

\* the state of a page just loaded, for the handlers
NewWorld(flds) ==
    [calendar |-> null, fields |-> flds, orphans |-> <<>>, timers |-> <<>>,
     log |-> NewLog, handler |-> NoHandler]

\* An uncaught TypeError ends the handler; what it did so far stays.
Throw(w) == [w EXCEPT !.log.error = TRUE]

NoCell == [my_date |-> null, holiday |-> FALSE, other_month |-> FALSE,
           today |-> FALSE, selected_date |-> FALSE]

\* the value of a select element that has no option for the value set
NoOption == -1

Visible(cal) == cal # null /\ cal.display = "block"

set_hide_show_handler(w, h) == [w EXCEPT !.handler = h]

\* observe_escape(): add_event(window, 'keydown', handle_escape); the same
\* listener is registered once, however often it is added
observe_escape(observed) == TRUE

----------------------------------------------------------------------------
(* Observation of scrolling and resizing (src/calendar.js 2623-2711).      *)

RECURSIVE ParentChain(_)
ParentChain(e) ==
    IF parentElement(e) = "none" THEN <<>>
    ELSE <<parentElement(e)>> \o ParentChain(parentElement(e))

Includes(seq, x) == \E i \in 1..Len(seq) : seq[i] = x

\* field.ancestors as collect_ancestors leaves it
collect_ancestors(field) ==
    LET a0 == ParentChain(field)
        a1 == IF ~Includes(a0, "body") THEN Append(a0, "body") ELSE a0
        a2 == IF ~Includes(a1, "html") THEN Append(a1, "html") ELSE a1
    IN  a2

Watch(target, kind) == [target |-> target, kind |-> kind, live |-> TRUE]

RECURSIVE AncestorWatches(_)
\* per ancestor: a scroll listener and a ResizeObserver
AncestorWatches(ancestors) ==
    IF ancestors = <<>> THEN <<>>
    ELSE <<Watch(Head(ancestors), "scroll"), Watch(Head(ancestors), "resize_observer")>>
         \o AncestorWatches(Tail(ancestors))

\* The listeners a cleanup function of the field still refers to.
LiveOf(flds, f) == SelectSeq(flds[f].event_cleanup_fns, LAMBDA c : c.live)

add_observation_events(w, field) ==
    LET ancestors == collect_ancestors(field)
        lost      == [i \in 1..Len(LiveOf(w.fields, field)) |->
                         [target |-> LiveOf(w.fields, field)[i].target,
                          kind   |-> LiveOf(w.fields, field)[i].kind,
                          field  |-> field]]
        fns       == AncestorWatches(ancestors)
                     \o <<Watch("window", "resize"), Watch("window", "scroll")>>
    IN  [w EXCEPT !.fields[field].ancestors = ancestors,
                  !.fields[field].event_cleanup_fns = fns,
                  !.fields[field].has_cleanup_fns = TRUE,
                  !.orphans = @ \o lost]

\* remove_observation_events with the bug of calling no cleanup function
remove_observation_events_nothing(w, field) == w

remove_observation_events(w, field) ==
    IF ~w.fields[field].has_cleanup_fns THEN Throw(w)
    ELSE [w EXCEPT !.fields[field].event_cleanup_fns =
                       [i \in 1..Len(@) |-> [@[i] EXCEPT !.live = FALSE]]]

\* The fields whose reposition listener is registered for the event, one
\* entry per listener.
Listeners(flds, orph, target, kind) ==
    LET own(f) == SelectSeq(flds[f].event_cleanup_fns,
                            LAMBDA c : c.live /\ c.target = target /\ c.kind = kind)
        lost   == SelectSeq(orph, LAMBDA c : c.target = target /\ c.kind = kind)
    IN  [i \in 1..Len(own("f1")) |-> "f1"] \o [i \in 1..Len(own("f2")) |-> "f2"]
        \o [i \in 1..Len(lost) |-> lost[i].field]

\* position_calendar(field): recorded, the geometry is not modelled here
position_calendar(w, field) ==
    IF ~w.fields[field].my_calendar THEN Throw(w)
    ELSE [w EXCEPT !.log.positioned = Append(@, field)]

----------------------------------------------------------------------------
(* The month grid (src/calendar.js 2334-2350, 2509-2608).                  *)

\* is_holiday with the bug of taking every entry as an exact date
is_holiday_exact(date, config) ==
    \E i \in 1..Len(config.holidays) : date = config.holidays[i]

is_holiday(date, config) ==
    \E i \in 1..Len(config.holidays) :
        LET item  == config.holidays[i]
            local == IF item.y = 1970 THEN setFullYear(item, date.y) ELSE item
        IN  date = local

get_previous_day(date) ==
    IF date.d = 1
    THEN setDate(setMonth(date, date.mo - 1), NewDate(date.y, date.mo, 0, 0, 0, 0).d)
    ELSE setDate(date, date.d - 1)

get_next_day(date) == setDate(date, date.d + 1)

\* current_date before the loop of set_date, from the last day of the
\* previous month and the weekday (1..7) of the first day of the month
FirstCellFrom(other_month_date, first_day_of_week) ==
    NewDate(other_month_date.y, other_month_date.mo,
            other_month_date.d - first_day_of_week + 2, 0, 0, 0)

FirstCellOfMonth(first_day_date) ==
    FirstCellFrom(get_previous_day(first_day_date),
                  IF getDay(first_day_date) = 0 THEN 7 ELSE getDay(first_day_date))

\* The date the first day cell gets in set_date(date).
FirstCellDate(date) == FirstCellOfMonth(NewDate(date.y, date.mo, 1, 0, 0, 0))

RECURSIVE CellDates(_, _)
\* current_date of n consecutive iterations of the loop of set_date
CellDates(current_date, n) ==
    IF n = 0 THEN <<>>
    ELSE <<current_date>> \o CellDates(get_next_day(current_date), n - 1)

SameDay(a, b) == a.y = b.y /\ a.mo = b.mo /\ a.d = b.d

\* The day cells of the loop of set_date(date), given their dates.
RenderCells(dates, date, config, today_date) ==
    [i \in 1..Len(dates) |->
        [my_date       |-> dates[i],
         holiday       |-> is_holiday(dates[i], config),
         other_month   |-> dates[i].mo # date.mo \/ dates[i].y # date.y,
         today         |-> SameDay(dates[i], today_date),
         selected_date |-> SameDay(dates[i], date)]]

\* The day cells set_date(date) renders for the field's config.
DayCells(date, config, today_date, n) ==
    RenderCells(CellDates(FirstCellDate(date), n), date, config, today_date)

\* elms[0].value = v on a select: the value sticks only if an option has it
SelectValue(v, lo, hi) == IF v >= lo /\ v <= hi THEN v ELSE NoOption

set_date(w, date, now) ==
    LET cal == w.calendar
        w1  == [w EXCEPT !.calendar.my_date = date,
                         !.calendar.month_selector = date.mo,
                         !.calendar.year_selector =
                             SelectValue(date.y, cal.year_options[1], cal.year_options[2])]
    IN  IF cal.my_field = NoField THEN Throw(w1)
        ELSE LET config == w.fields[cal.my_field].calendar_config
             IN  [w1 EXCEPT !.calendar.cells =
                     DayCells(date, config, get_current_date(config, now), Len(cal.cells))]

\* the date shown, with the bug of falling back to the local date
DateOfText_local(text, parsed, config, now) ==
    IF text # <<>> /\ parsed # null THEN parsed ELSE now

\* the date set_date_from_field shows for the text of the field
DateOfText(text, parsed, config, now) ==
    IF text # <<>> /\ parsed # null THEN parsed ELSE get_current_date(config, now)

set_date_from_field(w, now) ==
    IF w.calendar.my_field = NoField THEN Throw(w)
    ELSE LET field  == w.fields[w.calendar.my_field]
             config == field.calendar_config
             text   == trim(field.value)
         IN  set_date(w, DateOfText(text, string_to_time(text, config.format, now),
                                    config, now), now)

----------------------------------------------------------------------------
(* The overlay lifecycle (src/calendar.js 2365-2496).                      *)

\* attach_to_calender with the bug of leaving the options of the year
\* selector as they are
attach_to_calender_old_years(w, field, now) ==
    LET config == w.fields[field].calendar_config
        w1 == [w EXCEPT !.calendar.my_field = field,
                        !.fields[field].my_calendar = TRUE,
                        !.calendar.month_options = config.month_names,
                        !.calendar.weekday_head = config.weekday_names,
                        !.log.attaches = @ + 1]
        w2 == add_observation_events(w1, field)
    IN  set_date_from_field(w2, now)

attach_to_calender(w, field, now) ==
    LET config == w.fields[field].calendar_config
        w1 == [w EXCEPT !.calendar.my_field = field,
                        !.fields[field].my_calendar = TRUE,
                        !.calendar.month_options = config.month_names,
                        !.calendar.year_options = <<config.start_year, config.end_year>>,
                        !.calendar.weekday_head = config.weekday_names,
                        !.log.attaches = @ + 1]
        w2 == add_observation_events(w1, field)
    IN  set_date_from_field(w2, now)

\* detach_from_calender with the bug of leaving the observers registered
detach_from_calender_observing(w, field) == [w EXCEPT !.calendar.my_field = NoField]

detach_from_calender(w, field) ==
    remove_observation_events([w EXCEPT !.calendar.my_field = NoField], field)

\* hide with the bug of leaving the field attached
hide_without_detach(w) ==
    IF w.calendar = null THEN Throw(w)
    ELSE [w EXCEPT !.calendar.display = "none",
                   !.calendar.i_am_still_active = FALSE]

\* the call of the handler with the bug of never calling it
call_handler_never(w) == w

\* if (SimpleCalendar.handler) SimpleCalendar.handler();
call_handler(w) ==
    IF w.handler # NoHandler THEN [w EXCEPT !.log.notified = @ + 1] ELSE w

\* hide with the bug of leaving i_am_still_active as it is
hide_still_active(w) ==
    IF w.calendar = null THEN Throw(w)
    ELSE LET w1 == IF w.calendar.my_field # NoField
                   THEN detach_from_calender(w, w.calendar.my_field)
                   ELSE w
         IN  call_handler([w1 EXCEPT !.calendar.display = "none"])

\* Before the first assign SimpleCalendar.calendar is null, and reading
\* my_field of it is a TypeError.
hide(w) ==
    IF w.calendar = null THEN Throw(w)
    ELSE LET w1 == IF w.calendar.my_field # NoField
                   THEN detach_from_calender(w, w.calendar.my_field)
                   ELSE w
         IN  call_handler([w1 EXCEPT !.calendar.display = "none",
                                     !.calendar.i_am_still_active = FALSE])

\* show with the bug of leaving i_am_still_active as hide() set it
show_inactive(w, field, now) ==
    IF w.calendar.my_field = field
    THEN call_handler(position_calendar([w EXCEPT !.calendar.display = "block"], field))
    ELSE LET w1 == attach_to_calender(hide(w), field, now)
         IN  call_handler(position_calendar([w1 EXCEPT !.calendar.display = "block"],
                                            field))

show(w, field, now) ==
    IF w.calendar.my_field = field
    THEN call_handler(position_calendar([w EXCEPT !.calendar.i_am_still_active = TRUE,
                                                  !.calendar.display = "block"], field))
    ELSE LET w1 == attach_to_calender(hide(w), field, now)
         IN  call_handler(position_calendar([w1 EXCEPT !.calendar.i_am_still_active = TRUE,
                                                       !.calendar.display = "block"],
                                            field))

\* hide_if_inactive with the bug of hiding as the flag was when the timer
\* was scheduled: the blur handlers have set it to false then
hide_if_inactive_as_scheduled(w) == hide(w)

\* hide_if_inactive with the bug of a check that never hides
hide_if_inactive_never(w) == w

hide_if_inactive(w) ==
    IF w.calendar.i_am_still_active THEN w ELSE hide(w)

\* A timer entry: the time left, and what happened since it was scheduled.
\*   att      the field attached when the blur handler scheduled it
\*   byField  scheduled by the blur of that attached field
\*   ctlFocus a focus event on an internal control came since
\*   ownFocus a focus event on att or on an internal control came since
\*   focus    a focus event on a field or on an internal control came since
\*   blurred  another blur handler ran since
\*   hidden   hide() was called by a key or a cell click since
setTimeout(w, att, byField) ==
    [w EXCEPT !.timers = Append(@, [rem |-> Delay, att |-> att, byField |-> byField,
                                    ctlFocus |-> FALSE, ownFocus |-> FALSE,
                                    focus |-> FALSE,
                                    blurred |-> FALSE, hidden |-> FALSE])]

----------------------------------------------------------------------------
(* Registration (src/calendar.js 1954-1990, 2000-2184, 2255-2315).         *)

DefaultMonthNames == "English"
DefaultWeekdayNames == "English"
DefaultFormat == <<"Y", "-", "m", "-", "d">>

\* The number of day cells create_calendar builds: 6 rows of 7.
Rows == 6
Columns == 7

create_calendar(w, now) ==
    IF w.calendar # null THEN w
    ELSE LET date == get_current_date([time_zone |-> get_current_time_zone_code], now)
         IN  [w EXCEPT !.calendar =
                 [my_field          |-> NoField,
                  i_am_still_active |-> FALSE,
                  display           |-> "",
                  my_date           |-> null,
                  month_selector    |-> 0,
                  year_selector     |-> date.y - 10,
                  month_options     |-> DefaultMonthNames,
                  year_options      |-> <<date.y - 10, date.y + 10>>,
                  weekday_head      |-> DefaultWeekdayNames,
                  cells             |-> [i \in 1..(Rows * Columns) |-> NoCell]]]

\* init_field with the bug of a missing "simple_calendar_added" guard
init_field_unguarded(w, field, config) ==
    [w EXCEPT !.fields[field].calendar_config = config,
              !.fields[field].added = TRUE,
              !.fields[field].placeholder =
                  IF config.placeholder # "" THEN config.placeholder ELSE @,
              !.fields[field].handlers = @ + 1]

init_field(w, field, config) ==
    IF w.fields[field].added THEN w
    ELSE [w EXCEPT !.fields[field].calendar_config = config,
                   !.fields[field].added = TRUE,
                   !.fields[field].placeholder =
                       IF config.placeholder # "" THEN config.placeholder ELSE @,
                   !.fields[field].handlers = @ + 1]

RECURSIVE InitFields(_, _, _)
InitFields(w, flds, config) ==
    IF flds = <<>> THEN w
    ELSE InitFields(init_field(w, Head(flds), config), Tail(flds), config)

\* The configuration after assign has filled in what the caller left out
\* (an absent entry is "", <<>> or 0).
WithDefaults(config, now) ==
    LET tz   == IF config.time_zone = "" THEN get_current_time_zone_code
                ELSE config.time_zone
        date == get_current_date([time_zone |-> tz], now)
    IN  [format        |-> IF config.format = <<>> THEN DefaultFormat ELSE config.format,
         start_year    |-> IF config.start_year = 0 THEN date.y - 10 ELSE config.start_year,
         end_year      |-> IF config.end_year = 0 THEN date.y + 10 ELSE config.end_year,
         month_names   |-> IF config.month_names = "" THEN DefaultMonthNames
                           ELSE config.month_names,
         weekday_names |-> IF config.weekday_names = "" THEN DefaultWeekdayNames
                           ELSE config.weekday_names,
         holidays      |-> config.holidays,
         time_zone     |-> tz,
         placeholder   |-> config.placeholder]

\* field_ref is a text input or a selector; this is the list of fields meant.
FieldsOf(field_ref) ==
    CASE field_ref = "f1"     -> <<"f1">>
      [] field_ref = "f2"     -> <<"f2">>
      [] field_ref = ".date"  -> <<"f1", "f2">>
      [] OTHER                -> <<>>

assign(w, field_ref, config, now) ==
    IF field_ref = "" THEN w
    ELSE InitFields(create_calendar(w, now), FieldsOf(field_ref), WithDefaults(config, now))

----------------------------------------------------------------------------
(* The event handlers (src/calendar.js 1967-1989, 2065-2177, 2726-2730).   *)

\* the focus handler with the bug of showing the overlay for every field
field_focus_any_field(w, field, now) == show(hide(w), field, now)

field_focus(w, field, now) ==
    LET w1 == hide(w)
    IN  IF w.fields[field].readOnly \/ w.fields[field].disabled THEN w1
        ELSE show(w1, field, now)

field_blur(w, field, now) ==
    IF ~w.fields[field].my_calendar THEN Throw(w)
    ELSE LET fld == w.fields[field]
             w1  == [w EXCEPT !.calendar.i_am_still_active = FALSE]
             w2  == IF string_to_time(trim(fld.value), fld.calendar_config.format, now) = null
                    THEN [w1 EXCEPT !.fields[field].value = <<>>]
                    ELSE w1
         IN  setTimeout(w2, w.calendar.my_field, w.calendar.my_field = field)

field_keyup(w, field, now) == set_date_from_field(w, now)

\* the focus handler of a control with the bug of leaving the flag alone
control_focus_without_flag(w) == w

control_focus(w) == [w EXCEPT !.calendar.i_am_still_active = TRUE]

control_blur(w) ==
    setTimeout([w EXCEPT !.calendar.i_am_still_active = FALSE], w.calendar.my_field, FALSE)

\* fire_event(field, "change"): listeners see the field's value of that moment
fire_event(w, field, sEvt) ==
    [w EXCEPT !.log.changes = Append(@, [field |-> field, value |-> w.fields[field].value])]

\* the click handler with the bug of firing change before the value is set
cell_click_change_first(w, k, now) ==
    IF w.calendar.my_field = NoField THEN w
    ELSE LET field   == w.calendar.my_field
             my_date == w.calendar.cells[k].my_date
             w1 == fire_event(w, field, "change")
             w2 == [w1 EXCEPT !.fields[field].value =
                        time_to_string(my_date, w.fields[field].calendar_config.format)]
             w3 == set_date(w2, my_date, now)
         IN  hide(w3)

cell_click(w, k, now) ==
    IF w.calendar.my_field = NoField THEN w
    ELSE LET field   == w.calendar.my_field
             my_date == w.calendar.cells[k].my_date
             w1 == [w EXCEPT !.fields[field].value =
                        time_to_string(my_date, w.fields[field].calendar_config.format)]
             w2 == fire_event(w1, field, "change")
             w3 == set_date(w2, my_date, now)
         IN  hide(w3)

handle_escape(w, keyCode) == IF keyCode # 27 THEN w ELSE hide(w)

\* the click handler of arrow_left with the bug of picking the day it shows
arrow_left_click_picking(w, now) ==
    LET year  == w.calendar.my_date.y
        month == w.calendar.my_date.mo
        date  == NewDate(year, month, 0, 0, 0, 0)
        field == w.calendar.my_field
    IN  hide(set_date([w EXCEPT !.fields[field].value =
                                    time_to_string(date,
                                        w.fields[field].calendar_config.format)],
                      date, now))

\* The click and change handlers of the controls (this.value is the value of
\* the option chosen).
arrow_left_click(w, now) ==
    LET year  == w.calendar.my_date.y
        month == w.calendar.my_date.mo
    IN  set_date(w, NewDate(year, month, 0, 0, 0, 0), now)

month_selector_change(w, value, now) ==
    LET year == w.calendar.my_date.y
    IN  set_date(w, NewDate(year, value + 1, 0, 0, 0, 0), now)

year_selector_change(w, value, now) ==
    LET month == w.calendar.my_date.mo
    IN  set_date(w, NewDate(value, month + 1, 0, 0, 0, 0), now)

arrow_right_click(w, now) ==
    LET year  == w.calendar.my_date.y
        month == w.calendar.my_date.mo
    IN  set_date(w, NewDate(year, month + 2, 0, 0, 0, 0), now)

\* An event runs every listener registered for it, in order.
Dispatch(n, listener(_), w) ==
    IF n = 0 THEN w ELSE listener(IF n = 1 THEN w ELSE listener(w))

----------------------------------------------------------------------------
(* Inputs.                                                                 *)

Date(y, m, d, h, mi, s) == [y |-> y, mo |-> m - 1, d |-> d, h |-> h, mi |-> mi, s |-> s]

T_empty      == <<>>
T_29_02_2024 == <<" ", "2", "9", ".", "0", "2", ".", "2", "0", "2", "4">>
T_31_02_2024 == <<"3", "1", ".", "0", "2", ".", "2", "0", "2", "4">>

\* what a user types into a field
Texts == {T_29_02_2024, T_31_02_2024}

ConfigA == [format        |-> <<"d", ".", "m", ".", "Y">>,
            start_year    |-> 2020,
            end_year      |-> 2030,
            month_names   |-> "Deutsch",
            weekday_names |-> "Deutsch",
            holidays      |-> <<Date(1970, 1, 1, 0, 0, 0)>>,
            time_zone     |-> "Pacific/Kiritimati",
            placeholder   |-> "dd.mm.yyyy"]

\* the empty configuration: everything is left to the defaults
ConfigB == [format        |-> <<>>,
            start_year    |-> 0,
            end_year      |-> 0,
            month_names   |-> "",
            weekday_names |-> "",
            holidays      |-> <<>>,
            time_zone     |-> "",
            placeholder   |-> ""]

\* the calls of assign the page makes: one field by reference, all by selector
AssignCalls == {<<"f1", ConfigA>>, <<".date", ConfigB>>}
KeyCodes == {27, 13}
\* the day cells a user clicks: the first (a day of the month before, unless
\* the month starts on a Monday) and one in the middle
PickCells == {1, 18}
\* the user picks days at most this many months away from the current month
MaxPickDistance == 0
Clocks == {Date(2024, 2, 29, 12, 0, 0)}
\* the user steps with the arrows at most this many months away from the
\* current month
MaxNavDistance == 1
\* the options a user chooses in the month and the year selector
MonthChoices == {0, 2}
YearChoices == {2025}

NoProbe == [op |-> "none"]

----------------------------------------------------------------------------
(* The state machine of the page.                                          *)

NewField(value, readOnly) ==
    [added |-> FALSE, handlers |-> 0, calendar_config |-> null, my_calendar |-> FALSE,
     value |-> value, readOnly |-> readOnly, disabled |-> FALSE, placeholder |-> "",
     ancestors |-> <<>>, event_cleanup_fns |-> <<>>, has_cleanup_fns |-> FALSE]

\* The page when it is loaded: f2 is either as f1, or read-only with a value
\* attribute.
PageLoaded(r2) ==
    /\ calendar = null
    /\ fields = [f \in Fields |-> IF f = "f1" \/ ~r2 THEN NewField(T_empty, FALSE)
                                  ELSE NewField(T_31_02_2024, TRUE)]
    /\ orphans = <<>>
    /\ timers = <<>>
    /\ focused = "none"
    /\ sinceBlur = Delay
    /\ log = NewLog
    /\ handler = NoHandler

\* The page has called observe_escape() when it was loaded.
Init ==
    /\ \E r2 \in BOOLEAN : PageLoaded(r2)
    /\ escape_observed = TRUE
    /\ clock \in Clocks
    /\ probe = NoProbe

\* The handler's result becomes the new state.
Commit(w) ==
    /\ calendar' = w.calendar
    /\ fields' = w.fields
    /\ orphans' = w.orphans
    /\ log' = w.log

\* ... and its timers the pending ones.
CommitTimers(w) == Commit(w) /\ timers' = w.timers

\* The state is the one the handlers left.
Reached(w) ==
    /\ calendar = w.calendar
    /\ fields = w.fields
    /\ orphans = w.orphans
    /\ log = w.log

Begin == [World EXCEPT !.log = NewLog]

Mark(ts, ctl, fld, blur, hid) ==
    [i \in 1..Len(ts) |->
        [ts[i] EXCEPT !.ctlFocus = @ \/ ctl,
                      !.ownFocus = @ \/ ctl \/ (fld # NoField /\ fld = ts[i].att),
                      !.focus    = @ \/ ctl \/ fld # NoField,
                      !.blurred  = @ \/ blur,
                      !.hidden   = @ \/ hid]]

Assign(field_ref, config) ==
    /\ Commit(assign(Begin, field_ref, config, clock))
    /\ UNCHANGED <<timers, focused, sinceBlur, clock, handler, escape_observed, probe>>

FieldFocus(f) ==
    /\ focused = "none"
    /\ fields[f].added
    /\ LET listener(w) == field_focus(w, f, clock)
       IN  Commit(Dispatch(fields[f].handlers, listener, Begin))
    /\ timers' = Mark(timers, FALSE, f, FALSE, FALSE)
    /\ focused' = f
    /\ UNCHANGED <<sinceBlur, clock, handler, escape_observed, probe>>

FieldBlur(f) ==
    /\ focused = f
    /\ Len(timers) < MaxTimers
    /\ LET listener(w) == field_blur(w, f, clock)
           old == [World EXCEPT !.timers = Mark(timers, FALSE, NoField, TRUE, FALSE)]
       IN  CommitTimers(Dispatch(fields[f].handlers, listener, [old EXCEPT !.log = NewLog]))
    /\ focused' = "none"
    /\ sinceBlur' = 0
    /\ UNCHANGED <<clock, handler, escape_observed, probe>>

KeyUp(f, text) ==
    /\ focused = f
    /\ LET typed == IF fields[f].readOnly THEN World
                    ELSE [World EXCEPT !.fields[f].value = text]
           listener(w) == field_keyup(w, f, clock)
       IN  Commit(Dispatch(fields[f].handlers, listener, [typed EXCEPT !.log = NewLog]))
    /\ UNCHANGED <<timers, focused, sinceBlur, clock, handler, escape_observed, probe>>

ControlFocus(c) ==
    /\ focused = "none"
    /\ Visible(calendar)
    /\ Commit(control_focus(Begin))
    /\ timers' = Mark(timers, TRUE, NoField, FALSE, FALSE)
    /\ focused' = c
    /\ UNCHANGED <<sinceBlur, clock, handler, escape_observed, probe>>

ControlBlur(c) ==
    /\ focused = c
    /\ Len(timers) < MaxTimers
    /\ LET old == [World EXCEPT !.timers = Mark(timers, FALSE, NoField, TRUE, FALSE)]
       IN  CommitTimers(control_blur([old EXCEPT !.log = NewLog]))
    /\ focused' = "none"
    /\ sinceBlur' = 0
    /\ UNCHANGED <<clock, handler, escape_observed, probe>>

Pickable(cell) ==
    IF cell.my_date = null THEN TRUE
    ELSE LET away == (cell.my_date.y * 12 + cell.my_date.mo) - (clock.y * 12 + clock.mo)
         IN  away <= MaxPickDistance /\ -away <= MaxPickDistance

\* A click on a day cell; the mouse button has taken the focus from the
\* element that had it, so the blur has come before.
CellClick(k) ==
    /\ calendar # null
    /\ focused = "none"
    /\ Pickable(calendar.cells[k])
    /\ Commit(cell_click(Begin, k, clock))
    /\ timers' = Mark(timers, FALSE, NoField, FALSE, calendar.my_field # NoField)
    /\ UNCHANGED <<focused, sinceBlur, clock, handler, escape_observed, probe>>

\* the month distance of a date from the current month is within the bound
Near(date, bound) ==
    LET away == (date.y * 12 + date.mo) - (clock.y * 12 + clock.mo)
    IN  away <= bound /\ -away <= bound

\* The controls can be used while the overlay is displayed; the control used
\* holds the focus.
ArrowLeftClick ==
    /\ focused = "arrow_left"
    /\ Visible(calendar)
    /\ Near(NewDate(calendar.my_date.y, calendar.my_date.mo, 0, 0, 0, 0), MaxNavDistance)
    /\ Commit(arrow_left_click(Begin, clock))
    /\ UNCHANGED <<timers, focused, sinceBlur, clock, handler, escape_observed, probe>>

ArrowRightClick ==
    /\ focused = "arrow_right"
    /\ Visible(calendar)
    /\ Near(NewDate(calendar.my_date.y, calendar.my_date.mo + 2, 0, 0, 0, 0), MaxNavDistance)
    /\ Commit(arrow_right_click(Begin, clock))
    /\ UNCHANGED <<timers, focused, sinceBlur, clock, handler, escape_observed, probe>>

MonthChange(value) ==
    /\ focused = "month_selector"
    /\ Visible(calendar)
    /\ value # calendar.month_selector
    /\ Commit(month_selector_change(Begin, value, clock))
    /\ UNCHANGED <<timers, focused, sinceBlur, clock, handler, escape_observed, probe>>

YearChange(value) ==
    /\ focused = "year_selector"
    /\ Visible(calendar)
    /\ value # calendar.year_selector
    /\ value >= calendar.year_options[1]
    /\ value <= calendar.year_options[2]
    /\ Commit(year_selector_change(Begin, value, clock))
    /\ UNCHANGED <<timers, focused, sinceBlur, clock, handler, escape_observed, probe>>

\* a step of one of the four navigation controls
Navigation ==
    \/ ArrowLeftClick
    \/ ArrowRightClick
    \/ \E v \in MonthChoices : MonthChange(v)
    \/ \E v \in YearChoices : YearChange(v)

\* A key goes down somewhere in the window; handle_escape runs if it is
\* registered.
KeyDown(keyCode) ==
    /\ Commit(IF escape_observed THEN handle_escape(Begin, keyCode) ELSE Begin)
    /\ timers' = Mark(timers, FALSE, NoField, FALSE, escape_observed /\ keyCode = 27)
    /\ UNCHANGED <<focused, sinceBlur, clock, handler, escape_observed, probe>>

\* The callback of the oldest pending timer runs hide_if_inactive.
TimerFire ==
    /\ timers # <<>>
    /\ Commit(hide_if_inactive(Begin))
    /\ timers' = Tail(timers)
    /\ UNCHANGED <<focused, sinceBlur, clock, handler, escape_observed, probe>>

\* One unit of time passes; a due timer fires before more time passes.
Tick ==
    /\ IF timers = <<>> THEN sinceBlur < Delay ELSE Head(timers).rem > 0
    /\ timers' = [i \in 1..Len(timers) |-> [timers[i] EXCEPT !.rem = @ - 1]]
    /\ sinceBlur' = IF sinceBlur < Delay THEN sinceBlur + 1 ELSE Delay
    /\ UNCHANGED <<calendar, fields, orphans, focused, clock, log, handler,
                   escape_observed, probe>>

\* A scroll or resize reaches the listeners registered for it.
RECURSIVE Reposition(_, _)
Reposition(w, owners) ==
    IF owners = <<>> THEN w
    ELSE Reposition(position_calendar(w, Head(owners)), Tail(owners))

\* the scroll and resize events of the page
Observations == {<<"window", "resize">>, <<"window", "scroll">>, <<"panel", "scroll">>,
                 <<"body", "resize_observer">>}

Observed(target, kind) ==
    /\ Commit(Reposition(Begin, Listeners(fields, orphans, target, kind)))
    /\ UNCHANGED <<timers, focused, sinceBlur, clock, handler, escape_observed, probe>>

Events ==
    \/ \E a \in AssignCalls : Assign(a[1], a[2])
    \/ \E f \in Fields : FieldFocus(f)
    \/ \E f \in Fields : FieldBlur(f)
    \/ \E f \in Fields, t \in Texts : KeyUp(f, t)
    \/ \E c \in Controls : ControlFocus(c)
    \/ \E c \in Controls : ControlBlur(c)
    \/ \E k \in PickCells : CellClick(k)
    \/ \E k \in KeyCodes : KeyDown(k)
    \/ \E o \in Observations : Observed(o[1], o[2])

\* Spec abstracts from the length of the delay: a pending check fires at any
\* time after it was scheduled, in the order of scheduling.
Next == Events \/ Navigation \/ TimerFire

Spec == Init /\ [][Next]_vars

\* TimedSpec keeps the time: a check fires when its delay has passed.
DueTimerFire == (timers # <<>> /\ Head(timers).rem = 0) /\ TimerFire

TimedNext ==
    \/ \E a \in AssignCalls : Assign(a[1], a[2])
    \/ \E f \in Fields : FieldFocus(f)
    \/ \E f \in Fields : FieldBlur(f)
    \/ \E c \in Controls : ControlFocus(c)
    \/ \E c \in Controls : ControlBlur(c)
    \/ DueTimerFire
    \/ Tick

TimedSpec == Init /\ [][TimedNext]_vars

\* the callbacks the page passes to set_hide_show_handler
Callbacks == {"on_hide_show", NoHandler}

SetHideShowHandler(h) ==
    /\ h # handler
    /\ handler' = set_hide_show_handler(World, h).handler
    /\ UNCHANGED <<calendar, fields, orphans, timers, focused, sinceBlur, clock, log,
                   escape_observed, probe>>

\* NotifySpec: the page sets and clears the hide/show callback when it likes.
\* The navigation controls, whose handlers call set_date only, are not used.
NotifyNext == Events \/ TimerFire \/ \E h \in Callbacks : SetHideShowHandler(h)

NotifySpec == Init /\ [][NotifyNext]_vars

\* The page calls observe_escape().
ObserveEscape ==
    /\ ~escape_observed
    /\ escape_observed' = observe_escape(escape_observed)
    /\ UNCHANGED <<calendar, fields, orphans, timers, focused, sinceBlur, clock, log,
                   handler, probe>>

\* EscapeSpec: a page that has not called observe_escape() when it was
\* loaded, and may call it later.  The navigation controls are not used.
EscapeInit ==
    /\ \E r2 \in BOOLEAN : PageLoaded(r2)
    /\ escape_observed = FALSE
    /\ clock \in Clocks
    /\ probe = NoProbe

EscapeNext == Events \/ TimerFire \/ ObserveEscape

EscapeSpec == EscapeInit /\ [][EscapeNext]_vars

TypeOK ==
    /\ focused \in Fields \cup Controls \cup {"none"}
    /\ sinceBlur \in 0..Delay
    /\ Len(timers) <= MaxTimers
    /\ calendar # null => calendar.my_field \in Fields \cup {NoField}

----------------------------------------------------------------------------
(* Properties of the deferred hide.                                        *)

\* hidden and detached: visible == false and attachedField == none
Hidden(cal) == cal # null /\ cal.display # "block" /\ cal.my_field = NoField

\* the step is the callback of the oldest pending timer
Fired == timers # <<>> /\ timers' = Tail(timers)

\* the callback leaves the overlay and the fields as they are
NoOp == calendar' = calendar /\ fields' = fields /\ orphans' = orphans

\* C1 as stated: when the attached field blurred and a focus event on an
\* internal control came before the scheduled check fires, with no further
\* blur in between, the check is a no-op and the overlay is still visible and
\* attached to the same field after it.
ControlFocusCancelsHide ==
    [][(Fired /\ Head(timers).byField /\ Head(timers).ctlFocus /\ ~Head(timers).blurred)
           => (NoOp /\ Visible(calendar') /\ calendar'.my_field = Head(timers).att)]_vars

\* C1, amended: the same, provided that no hide() by the Escape key or by a
\* click on a day came in between either.
ControlFocusCancelsHideUnlessHidden ==
    [][(Fired /\ Head(timers).byField /\ Head(timers).ctlFocus /\ ~Head(timers).blurred
              /\ ~Head(timers).hidden)
           => (NoOp /\ Visible(calendar') /\ calendar'.my_field = Head(timers).att)]_vars

\* C1: a control holds the focus, every check has fired, the overlay is
\* still visible and attached.
ControlFocusKeptOverlay ==
    /\ focused \in Controls
    /\ timers = <<>>
    /\ Visible(calendar)
    /\ calendar.my_field = "f1"

\* The timer callbacks are run by the browser: a pending one fires.
LiveSpec == Spec /\ WF_vars(TimerFire)

\* C2 as stated: when the attached field or an internal control blurred and
\* no focus event landed on that field or on an internal control before the
\* scheduled check fires, the overlay is hidden and detached after the check.
BlurWithoutOwnFocusHides ==
    [][(Fired /\ Head(timers).att # NoField /\ ~Head(timers).ownFocus)
           => Hidden(calendar')]_vars

\* C2, amended: when the attached field or an internal control blurred and
\* no focus event landed on any registered field or internal control
\* before the scheduled check fires, the overlay is hidden and detached after
\* the check; and the check does fire, so the overlay becomes hidden and
\* detached unless a focus event comes.
BlurWithoutFocusHides ==
    /\ [][(Fired /\ Head(timers).att # NoField /\ ~Head(timers).focus)
              => Hidden(calendar')]_vars
    /\ (timers # <<>> /\ Head(timers).att # NoField /\ ~Head(timers).focus)
           ~> (Hidden(calendar) \/ focused # "none")

\* C2: the field was attached, has blurred, every check has fired and the
\* overlay is hidden and detached.
CheckHidOverlay ==
    /\ Hidden(calendar)
    /\ timers = <<>>
    /\ focused = "none"
    /\ fields["f1"].my_calendar
    /\ log = NewLog

\* the step is the callback of a timer whose delay has passed
DueFired == timers # <<>> /\ Head(timers).rem = 0 /\ timers' = Tail(timers)

\* C3: a hide performed by the deferred check happens no earlier than one
\* full delay after the most recent blur, and a timer whose scheduling blur
\* was followed by a focus inside the widget is a no-op when it fires.
HideOneDelayAfterLastBlur ==
    [][DueFired =>
          /\ (Visible(calendar) /\ ~Visible(calendar')) => sinceBlur = Delay
          /\ Head(timers).ownFocus => NoOp]_vars

\* the field the overlay serves while the focus is on that field or on an
\* internal control of the overlay attached to it; NoField if there is none
FocusOwner ==
    IF focused \in Fields THEN focused
    ELSE IF focused \in Controls /\ calendar # null THEN calendar.my_field
    ELSE NoField

\* the step is the callback of a timer scheduled by the blur of a field other
\* than the one that holds the focus
FiredForOtherField ==
    /\ Fired
    /\ Head(timers).byField
    /\ Head(timers).att # NoField
    /\ FocusOwner # NoField
    /\ FocusOwner # Head(timers).att

\* C25 as stated: when the timer scheduled by the blur of field A fires while
\* another field B, or an internal control of the overlay attached to B, holds
\* the focus, the overlay is visible and attached to B after it.
OtherFieldFocusKeepsOverlay ==
    [][FiredForOtherField => (Visible(calendar') /\ calendar'.my_field = FocusOwner)]_vars

\* C25, amended: such a timer never hides or detaches the overlay: when the
\* overlay is visible and attached to B as the timer fires, the callback
\* changes nothing; and the overlay is visible and attached to B then,
\* provided that B is not read-only and no hide() by the Escape key or by a
\* click on a day came since the blur of A.
OtherFieldFocusKeepsShownOverlay ==
    /\ [][(FiredForOtherField /\ Visible(calendar) /\ calendar.my_field = FocusOwner)
              => (NoOp /\ Visible(calendar') /\ calendar'.my_field = FocusOwner)]_vars
    /\ [][(FiredForOtherField /\ ~Head(timers).hidden
              /\ ~fields[FocusOwner].readOnly /\ ~fields[FocusOwner].disabled)
              => (Visible(calendar) /\ calendar.my_field = FocusOwner)]_vars

\* C25: f2 holds the focus and shows the overlay; f1 was attached before, and
\* every timer of its blur has fired.
SecondFieldKeptOverlay ==
    /\ focused = "f2"
    /\ timers = <<>>
    /\ Visible(calendar)
    /\ calendar.my_field = "f2"
    /\ fields["f1"].my_calendar
    /\ log = NewLog

----------------------------------------------------------------------------
(* Properties of attachment and observation.                               *)

\* listeners of the field are registered
Bound(flds, f) == LiveOf(flds, f) # <<>>

\* the step is a focus event on a field that can take input
Focusing(f) ==
    focused = "none" /\ focused' = f /\ ~fields[f].readOnly /\ ~fields[f].disabled

\* C4: at most one field is attached: only the field calendar.my_field has
\* bindings; and after show(A), show(B) the overlay is attached to B and the
\* binding of A is torn down.
SingleAttachment ==
    [][/\ calendar' # null =>
              \A g \in Fields : Bound(fields', g) => calendar'.my_field = g
       /\ \A f \in Fields :
              Focusing(f) => /\ calendar'.my_field = f
                             /\ Visible(calendar')
                             /\ \A g \in Fields \ {f} : ~Bound(fields', g)]_vars

\* C4: f2 has just been shown after f1 had been shown before.
SecondFieldShown ==
    /\ Visible(calendar)
    /\ calendar.my_field = "f2"
    /\ log.attaches = 1
    /\ fields["f1"].has_cleanup_fns
    /\ ~Bound(fields, "f1")
    /\ Bound(fields, "f2")

\* C5: the registered reposition listeners are one set, that of the attached
\* field, and none when no field is attached: no listener is left behind, no
\* event has two listeners, and a scroll or resize repositions at most once,
\* for the attached field.
ObserversOfAttachedFieldOnly ==
    calendar # null =>
        /\ orphans = <<>>
        /\ \A f \in Fields :
               LET live == LiveOf(fields, f)
               IN  /\ (live # <<>>) = (calendar.my_field = f)
                   /\ \A i, j \in 1..Len(live) : live[i] = live[j] => i = j
        /\ \A o \in Observations :
               LET owners == Listeners(fields, orphans, o[1], o[2])
               IN  /\ Len(owners) <= 1
                   /\ \A i \in 1..Len(owners) : owners[i] = calendar.my_field
        /\ Len(log.positioned) <= 1
        /\ \A i \in 1..Len(log.positioned) : log.positioned[i] = calendar.my_field

\* C5: a scroll or resize has repositioned the overlay for f2, after f1 had
\* been attached and detached.
ScrollRepositionedSecondField ==
    /\ calendar # null
    /\ calendar.my_field = "f2"
    /\ fields["f1"].has_cleanup_fns
    /\ log.attaches = 0
    /\ log.positioned = <<"f2">>

----------------------------------------------------------------------------
(* Properties of the handlers of a field and of a day cell.                *)

\* C7: after a blur of a registered field its value is empty or parses under
\* the format of the field: a value that parses is kept, any other is
\* replaced by the empty string.
BlurKeepsValidClearsInvalid ==
    [][\A f \in Fields :
          (focused = f /\ focused' = "none") =>
              IF string_to_time(trim(fields[f].value),
                                fields[f].calendar_config.format, clock) # null
              THEN fields'[f].value = fields[f].value
              ELSE fields'[f].value = <<>>]_vars

\* C8: a click on a day cell while a field is attached writes
\* time_to_string(cell date, format of the field) into that field only, fires
\* change on it with the value written, sets the date of the overlay to the
\* cell date and leaves the overlay hidden and detached with
\* i_am_still_active false; while no field is attached it changes nothing.
CellClickWritesAndHides ==
    [][/\ log'.changes # <<>> =>
              LET f == calendar.my_field
              IN  /\ f # NoField
                  /\ \E k \in 1..Len(calendar.cells) :
                         /\ calendar'.my_date = calendar.cells[k].my_date
                         /\ fields'[f].value =
                                time_to_string(calendar.cells[k].my_date,
                                               fields[f].calendar_config.format)
                  /\ log'.changes = <<[field |-> f, value |-> fields'[f].value]>>
                  /\ \A g \in Fields \ {f} : fields'[g] = fields[g]
                  /\ Hidden(calendar')
                  /\ ~calendar'.i_am_still_active
       /\ \A k \in PickCells :
              (calendar # null /\ calendar.my_field = NoField /\ CellClick(k))
                  => (log'.changes = <<>> /\ NoOp)]_vars

\* C8: a day has been picked for f1: the field holds the text of the date of
\* the overlay, change was fired with it, the overlay is hidden and detached.
DayPicked ==
    /\ Hidden(calendar)
    /\ calendar.my_date # null
    /\ fields["f1"].value # <<>>
    /\ fields["f1"].value =
           time_to_string(calendar.my_date, fields["f1"].calendar_config.format)
    /\ log.changes = <<[field |-> "f1", value |-> fields["f1"].value]>>

\* C9: assign for a field that is initialized leaves its configuration and
\* its handlers as they are (one handler per event), so a focus event causes
\* exactly one attach.
RegistrationIdempotent ==
    [][/\ \A f \in Fields :
              fields[f].added =>
                  /\ fields'[f].calendar_config = fields[f].calendar_config
                  /\ fields'[f].handlers = fields[f].handlers
                  /\ fields'[f].handlers = 1
       /\ \A f \in Fields : Focusing(f) => log'.attaches = 1]_vars

\* C9: f1 was assigned its own configuration, then all fields were assigned
\* another one; f1 has kept its own and its focus has attached it once.
ReassignedFieldAttachedOnce ==
    /\ fields["f2"].added
    /\ fields["f1"].calendar_config # null
    /\ fields["f1"].calendar_config.format = ConfigA.format
    /\ focused = "f1"
    /\ calendar.my_field = "f1"
    /\ log.attaches = 1

----------------------------------------------------------------------------
(* Properties of the displayed month and of the navigation controls.       *)

\* the date the overlay is to show for a text and what it parses to
ExpectedFor(text, parsed, config) ==
    IF text = <<>> \/ parsed = null THEN get_current_date(config, clock) ELSE parsed

\* the date the overlay is to show for the text of field f in state flds
ExpectedDate(flds, f) ==
    ExpectedFor(trim(flds[f].value),
                string_to_time(trim(flds[f].value), flds[f].calendar_config.format, clock),
                flds[f].calendar_config)

\* the overlay displays the month of the date
Displays(cal, date) ==
    /\ cal.my_date # null
    /\ cal.my_date.y = date.y
    /\ cal.my_date.mo = date.mo
    /\ cal.month_selector = date.mo
    /\ (date.y >= cal.year_options[1] /\ date.y <= cal.year_options[2])
           => cal.year_selector = date.y

\* C12: an attached overlay has a display month; after show(field) and after
\* a keyup on the attached field the overlay displays the (year, month) of the
\* date parsed from the trimmed text of the field if it parses under the
\* format of the field, and else of the current date in the time zone of the
\* field; no error comes out of it.
DisplayFollowsField ==
    [][/\ (calendar' # null /\ calendar'.my_field # NoField) =>
              (calendar'.my_date # null /\ calendar'.my_date.mo \in 0..11)
       /\ \A f \in Fields :
              (Focusing(f) \/ (/\ focused = f
                               /\ focused' = f
                               /\ calendar.my_field = f
                               /\ fields'[f].value \in Texts
                               /\ timers' = timers
                               /\ log'.positioned = <<>>
                               /\ KeyUp(f, fields'[f].value)))
                  => /\ calendar'.my_field = f
                     /\ Displays(calendar', ExpectedDate(fields', f))
                     /\ ~log'.error]_vars

\* C12: f1, whose time zone is a day ahead, holds a text that does not parse:
\* the overlay displays March 2024 while the local date is in February.
FallbackMonthDisplayed ==
    /\ focused = "f1"
    /\ calendar.my_field = "f1"
    /\ fields["f1"].value = T_31_02_2024
    /\ fields["f1"].calendar_config.time_zone = "Pacific/Kiritimati"
    /\ <<calendar.my_date.y, calendar.my_date.mo>> = <<2024, 2>>
    /\ clock.mo = 1
    /\ log = NewLog

\* C13: a click on an arrow or a change of the month or year selector leaves
\* the selected date alone: the date of the overlay, and the cell flagged
\* selected_date, is the same calendar date as before.
NavigationKeepsSelectedDate ==
    [][Navigation =>
          /\ SameDay(calendar'.my_date, calendar.my_date)
          /\ \A k \in 1..Len(calendar'.cells) :
                 calendar'.cells[k].selected_date
                     => SameDay(calendar'.cells[k].my_date, calendar.my_date)]_vars

\* C14: a click on an arrow or a change of the month or year selector leaves
\* the visibility, the attached field, i_am_still_active and the text of
\* every field as they are.
NavigationKeepsOverlayAndFields ==
    [][(/\ focused \in Controls
        /\ focused' = focused
        /\ calendar'.my_date # calendar.my_date
        /\ Navigation) =>
          /\ calendar'.display = calendar.display
          /\ calendar'.my_field = calendar.my_field
          /\ calendar'.i_am_still_active = calendar.i_am_still_active
          /\ \A f \in Fields : fields'[f].value = fields[f].value]_vars

\* C14: the right arrow has moved the overlay of f1 from February to March
\* 2024; the overlay is displayed and the field holds its text.
SteppedToNextMonth ==
    /\ focused = "arrow_right"
    /\ Visible(calendar)
    /\ calendar.i_am_still_active
    /\ calendar.my_field = "f1"
    /\ fields["f1"].value = T_29_02_2024
    /\ calendar.my_date = Date(2024, 3, 31, 0, 0, 0)

\* C15: while the overlay is displayed, a key that goes down with keyCode 27
\* hides and detaches it, and any other key leaves the overlay as it is.
EscapeHides ==
    [][\A keyCode \in KeyCodes :
          (Visible(calendar) /\ focused' = focused /\ escape_observed' = escape_observed
               /\ KeyDown(keyCode))
              => IF keyCode = 27 THEN Hidden(calendar') ELSE calendar' = calendar]_vars

\* Once the page has called observe_escape(), it is as C15 says.
EscapeHidesOnceObserved ==
    [][\A keyCode \in KeyCodes :
          (escape_observed /\ Visible(calendar) /\ focused' = focused /\ KeyDown(keyCode))
              => IF keyCode = 27 THEN Hidden(calendar') ELSE calendar' = calendar]_vars

\* C26: a focus event on the field the overlay is attached to only shows
\* and positions the overlay again: the overlay is not attached anew, the
\* observers of the field are neither released nor created again, and the
\* displayed month is the one it was.
RefocusOnlyReshows ==
    [][\A f \in Fields :
          (calendar # null /\ calendar.my_field = f /\ focused = "none" /\ focused' = f
               /\ FieldFocus(f))
              => /\ log'.attaches = 0
                 /\ fields'[f].event_cleanup_fns = fields[f].event_cleanup_fns
                 /\ orphans' = orphans
                 /\ Visible(calendar')
                 /\ calendar'.my_field = f
                 /\ log'.positioned = <<f>>
                 /\ Displays(calendar', calendar.my_date)]_vars

\* The overlay as the user has it: displayed or not (style.display is empty
\* until the first show or hide, and the overlay is not displayed then).
Overlay(cal) == [cal EXCEPT !.display = IF @ = "block" THEN "block" ELSE "none"]

\* the overlay and the fields of two states of the page are the same
SamePage(w1, w2) ==
    /\ Overlay(w1.calendar) = Overlay(w2.calendar)
    /\ w1.fields = w2.fields
    /\ w1.orphans = w2.orphans

\* C27: hide() called in any state of the page, the calendar once created,
\* ends with no field attached, the overlay hidden and i_am_still_active
\* false, and with no observer of the field that was attached left; called
\* while no field is attached and the overlay is hidden it leaves overlay and
\* fields as they are, so that hide(); hide() ends as hide() does.
HideDetachesAndIsIdempotent ==
    calendar # null =>
        LET w1 == hide(Begin)
            w2 == hide(w1)
        IN  /\ ~w1.log.error
            /\ Hidden(w1.calendar)
            /\ ~w1.calendar.i_am_still_active
            /\ \A f \in Fields : LiveOf(w1.fields, f) = <<>>
            /\ \A f \in Fields \ {calendar.my_field} : w1.fields[f] = fields[f]
            /\ (Hidden(calendar) /\ ~calendar.i_am_still_active) => SamePage(w1, Begin)
            /\ SamePage(w2, w1)

\* C27: hide() has run for the overlay attached to f1, which still holds the
\* focus: the overlay is hidden, f1 is detached and its observers are
\* released.
HiddenUnderFocus ==
    /\ focused = "f1"
    /\ Hidden(calendar)
    /\ ~calendar.i_am_still_active
    /\ fields["f1"].event_cleanup_fns # <<>>
    /\ LiveOf(fields, "f1") = <<>>

\* C29: while the overlay is attached to a field, the month selector, the
\* year selector and the weekday header are those of the configuration of
\* that field (the years are exactly start_year..end_year), and a click on a
\* day writes the date in the format of that field.
ControlsOfAttachedField ==
    /\ [](\A f \in Fields :
             (calendar # null /\ calendar.my_field = f) =>
                 LET config == fields[f].calendar_config
                 IN  /\ calendar.month_options = config.month_names
                     /\ calendar.year_options = <<config.start_year, config.end_year>>
                     /\ calendar.weekday_head = config.weekday_names)
    /\ [][log'.changes # <<>> =>
             /\ calendar.my_field \in Fields
             /\ fields'[calendar.my_field].value =
                    time_to_string(calendar'.my_date,
                                   fields[calendar.my_field].calendar_config.format)]_vars

\* C29: the overlay is attached to f2 and has the controls of f2, after it
\* had been attached to f1, whose configuration differs in the names, the
\* years and the format.
ControlsOfSecondField ==
    /\ Visible(calendar)
    /\ calendar.my_field = "f2"
    /\ fields["f1"].my_calendar
    /\ fields["f1"].calendar_config = WithDefaults(ConfigA, clock)
    /\ fields["f2"].calendar_config = WithDefaults(ConfigB, clock)
    /\ calendar.month_options = DefaultMonthNames
    /\ calendar.year_options = <<clock.y - 10, clock.y + 10>>
    /\ calendar.weekday_head = DefaultWeekdayNames

----------------------------------------------------------------------------
(* Properties of the hide/show callback.                                   *)

\* C16: while a callback is set, no step changes the visibility of the
\* overlay without calling it: it is called in every step in which the
\* overlay becomes visible and in every step in which it becomes hidden.
VisibilityChangeNotified ==
    [][(handler # NoHandler /\ Visible(calendar') # Visible(calendar))
           => log'.notified >= 1]_vars

\* C16: the overlay has been shown and then hidden by a day picked, and the
\* callback was called for it.
HideNotified ==
    /\ handler # NoHandler
    /\ Hidden(calendar)
    /\ log.changes # <<>>
    /\ log.notified = 1

\* C28: the callback of a timer reads i_am_still_active as it is when the
\* timer fires: when it is true the callback changes nothing (overlay,
\* fields and observers stay as they are, the hide/show callback is not
\* called), and when it is false the callback ends exactly as hide() does.
InactivityReadWhenFired ==
    [][Fired =>
          IF calendar.i_am_still_active
          THEN NoOp /\ log' = NewLog
          ELSE LET w == hide(Begin)
               IN  /\ calendar' = w.calendar
                   /\ fields' = w.fields
                   /\ orphans' = w.orphans
                   /\ log' = w.log
                   /\ Hidden(calendar')]_vars

\* C28: a hide/show callback is set, a control holds the focus and the timer
\* of the blur of the field has fired without hiding the overlay and without
\* a call of the callback.
ActiveOverlaySurvivedTimer ==
    /\ handler # NoHandler
    /\ focused \in Controls
    /\ timers = <<>>
    /\ Visible(calendar)
    /\ calendar.i_am_still_active
    /\ log = NewLog

----------------------------------------------------------------------------
(* CodecSpec: time_to_string and string_to_time on chosen dates and        *)
(* formats.                                                                *)

Tokens == <<"Y", "m", "d", "H", "i", "s">>

\* the orders of the six tokens
TokenOrders ==
    {p \in [1..6 -> 1..6] : \A i, j \in 1..6 : p[i] = p[j] => i = j}

\* the literals that separate the tokens
Separators == {"-", ".", "/", ":"}

\* the six tokens in the order p with the literal sep between them
SixTokenFormat(p, sep) ==
    [i \in 1..11 |-> IF i % 2 = 1 THEN Tokens[p[(i + 1) \div 2]] ELSE sep]

SixTokenFormats == {SixTokenFormat(p, sep) : p \in TokenOrders, sep \in Separators}

CivilDates ==
    {Date(999, 1, 1, 0, 0, 0), Date(1000, 12, 31, 23, 59, 59), Date(2024, 2, 29, 7, 5, 9),
     Date(2023, 10, 9, 10, 10, 10), Date(9999, 12, 31, 0, 0, 0)}

\* the dates new Date() returns when string_to_time runs
BaseDates == {Date(2024, 2, 29, 12, 0, 0), Date(2023, 3, 31, 23, 59, 59)}

CodecInit ==
    /\ PageLoaded(FALSE)
    /\ escape_observed = FALSE
    /\ clock \in Clocks
    /\ \E d \in CivilDates, f \in SixTokenFormats, n \in BaseDates :
           probe = [op |-> "codec", stage |-> "in", date |-> d, format |-> f, now |-> n,
                    text |-> <<>>, back |-> null]

CodecApply ==
    /\ probe.op = "codec"
    /\ probe.stage = "in"
    /\ LET text == time_to_string(probe.date, probe.format)
       IN  probe' = [probe EXCEPT !.stage = "out", !.text = text,
                                  !.back = string_to_time(text, probe.format, probe.now)]
    /\ UNCHANGED <<calendar, fields, orphans, timers, focused, sinceBlur, clock, log, handler,
                   escape_observed>>

CodecSpec == CodecInit /\ [][CodecApply]_vars

\* C6: for every valid date d with all six components (year 1..9999) and
\* every format f with the six tokens once each, in any order, separated by
\* literals, string_to_time(time_to_string(d, f), f) is exactly d.
CodecRoundTrip ==
    (probe.op = "codec") => (probe.stage = "out" => probe.back = probe.date)

----------------------------------------------------------------------------
(* GridSpec: set_date on chosen months, with the calendar attached to f1.  *)

GridYears == {50, 100, 1900, 2000, 2023, 2024}

GridInputs == {Date(y, m, d, 0, 0, 0) : y \in GridYears, m \in 1..12, d \in {1, 28}}

GridInit ==
    /\ clock \in Clocks
    /\ LET w0 == NewWorld([f \in Fields |-> NewField(T_empty, FALSE)])
       IN  Reached(field_focus(assign(w0, "f1", ConfigB, clock), "f1", clock))
    /\ handler = NoHandler
    /\ escape_observed = FALSE
    /\ timers = <<>>
    /\ focused = "f1"
    /\ sinceBlur = Delay
    /\ \E d \in GridInputs : probe = [op |-> "grid", stage |-> "in", date |-> d]

GridApply ==
    /\ probe.op = "grid"
    /\ probe.stage = "in"
    /\ Commit(set_date(Begin, probe.date, clock))
    /\ probe' = [probe EXCEPT !.stage = "out"]
    /\ UNCHANGED <<timers, focused, sinceBlur, clock, handler, escape_observed>>

GridSpec == GridInit /\ [][GridApply]_vars

\* ISO weekday of a day number: Monday = 1 .. Sunday = 7
IsoWeekday(z) == ((z + 3) % 7) + 1

\* the day that lies (firstWeekday - 1) days before the 1st of the month of date
MondayBeforeFirst(date) ==
    LET first == DaysFromCivil(date.y, date.mo + 1, 1)
    IN  first - (IsoWeekday(first) - 1)

DayNumber(date) == DaysFromCivil(date.y, date.mo + 1, date.d)

\* C10: for every (year, month), set_date fills exactly 42 cells with 42
\* consecutive days, row by row, starting at the Monday that lies
\* (firstWeekday - 1) days before the 1st of the month, so that cell k is in
\* weekday column k mod 7 (columns 5 and 6 are Saturday and Sunday).
GridStartsMondayBeforeFirst ==
    (probe.op = "grid") =>
        (probe.stage = "out" =>
            /\ Len(calendar.cells) = 42
            /\ \A k \in 1..Len(calendar.cells) :
                   /\ calendar.cells[k].my_date # null
                   /\ DayNumber(calendar.cells[k].my_date)
                          = MondayBeforeFirst(probe.date) + (k - 1)
                   /\ IsoWeekday(DayNumber(calendar.cells[k].my_date)) = ((k - 1) % 7) + 1)

----------------------------------------------------------------------------
(* HolidaySpec: set_date on chosen months for a field with holidays.       *)

\* ConfigA has the single recurring holiday 1970-01-01; this one has another
\* recurring holiday and a holiday of one year as well.
ConfigH == [ConfigA EXCEPT !.holidays = <<Date(1970, 1, 1, 0, 0, 0),
                                          Date(2024, 5, 9, 0, 0, 0),
                                          Date(1970, 12, 25, 0, 0, 0)>>]

HolidayConfigs == {ConfigA, ConfigH}

HolidayInputs == {Date(y, m, 15, 0, 0, 0) : y \in {50, 1970, 2023, 2024, 2025}, m \in 1..12}

HolidayInit ==
    /\ clock \in Clocks
    /\ \E config \in HolidayConfigs :
           LET w0 == NewWorld([f \in Fields |-> NewField(T_empty, FALSE)])
           IN  Reached(field_focus(assign(w0, "f1", config, clock), "f1", clock))
    /\ handler = NoHandler
    /\ escape_observed = FALSE
    /\ timers = <<>>
    /\ focused = "f1"
    /\ sinceBlur = Delay
    /\ \E d \in HolidayInputs : probe = [op |-> "grid", stage |-> "in", date |-> d]

HolidaySpec == HolidayInit /\ [][GridApply]_vars

\* the holiday entry matches the date: an entry of the year 1970 the same day
\* and month of every year, any other entry its own date only
EntryMatches(entry, date) ==
    IF entry.y = 1970 THEN entry.mo = date.mo /\ entry.d = date.d
    ELSE SameDay(entry, date)

\* the cells of the grid that are flagged holiday
HolidayCells == {k \in 1..Len(calendar.cells) : calendar.cells[k].holiday}

\* C17: a cell is flagged holiday exactly when some holiday entry of the
\* field's configuration matches its date; with the single entry 1970-01-01 a
\* grid with a January 1 has exactly one holiday cell, a grid without has none.
HolidayCellsMatchEntries ==
    (probe.op = "grid" /\ probe.stage = "out") =>
        LET holidays == fields[calendar.my_field].calendar_config.holidays
            cells    == calendar.cells
        IN  /\ \A k \in 1..Len(cells) :
                   cells[k].holiday <=>
                       \E i \in 1..Len(holidays) : EntryMatches(holidays[i], cells[k].my_date)
            /\ holidays = <<Date(1970, 1, 1, 0, 0, 0)>> =>
                   Cardinality(HolidayCells) =
                       (IF \E k \in 1..Len(cells) :
                               cells[k].my_date.mo = 0 /\ cells[k].my_date.d = 1
                        THEN 1 ELSE 0)

\* C17: the grid of December 2023 has been rendered with the single entry
\* 1970-01-01: its one holiday cell is 1 January 2024.
NewYearFlagged ==
    /\ probe.op = "grid"
    /\ probe.stage = "out"
    /\ probe.date = Date(2023, 12, 15, 0, 0, 0)
    /\ fields["f1"].calendar_config.holidays = <<Date(1970, 1, 1, 0, 0, 0)>>
    /\ \E k \in 1..Len(calendar.cells) :
           /\ HolidayCells = {k}
           /\ calendar.cells[k].my_date = Date(2024, 1, 1, 0, 0, 0)
           /\ calendar.cells[k].other_month

----------------------------------------------------------------------------
(* ParseSpec: string_to_time on chosen texts and formats.  The literals of *)
(* the formats are "-", ".", "/", ":" and the space; none of them but "."  *)
(* has a meaning in a regular expression.                                  *)

\* a number written with four digits
Pad4(n) ==
    LET aux == ToStr(n)
    IN  [i \in 1..(4 - Len(aux)) |-> "0"] \o aux

\* The text a user writes for the format: each token replaced by its digits.
Written(format, u) ==
    ReplaceFirst(ReplaceFirst(ReplaceFirst(ReplaceFirst(ReplaceFirst(ReplaceFirst(
        format, "d", u.d), "m", u.m), "Y", u.Y), "H", u.H), "i", u.i), "s", u.s)

\* the digits of date and time as they are usually written
UnitsOf(y, m, d, h, mi, s) ==
    [Y |-> Pad4(y), m |-> Pad2(m), d |-> Pad2(d), H |-> Pad2(h), i |-> Pad2(mi),
     s |-> Pad2(s)]

\* One call of string_to_time: the text, the format, and the numbers the
\* text was written from.
ParseCase(shape, format, text, y, m, d, h, mi, s) ==
    [op |-> "parse", stage |-> "in", shape |-> shape, format |-> format, text |-> text,
     year |-> y, month |-> m, day |-> d, hour |-> h, minute |-> mi, second |-> s,
     now |-> null, back |-> null]

F_dmY == <<"d", ".", "m", ".", "Y">>
F_Ymd == <<"Y", "-", "m", "-", "d">>

DateFormats == {F_dmY, F_Ymd}
ParseYears  == {0, 4, 1900, 2000, 2023, 2024}
ParseMonths == {0, 1, 2, 4, 12, 13}
ParseDays   == {0, 1, 28, 29, 30, 31, 32}

\* texts that match a format with d, m and Y: days and months in and out of
\* range
DateCases ==
    {ParseCase("date", f, Written(f, UnitsOf(y, m, d, 0, 0, 0)), y, m, d, 0, 0, 0) :
        f \in DateFormats, y \in ParseYears, m \in ParseMonths, d \in ParseDays}

F_dmY_slash == <<"d", "/", "m", "/", "Y">>
F_Hi     == <<"H", ":", "i">>
F_His    == <<"H", ":", "i", ":", "s">>
F_YmdHi  == F_Ymd \o <<" ">> \o F_Hi
F_YmdHis == F_Ymd \o <<" ">> \o F_His

\* formats with a complete date or a complete time, with and without H, i, s
TimeFormats ==
    {F_Hi, F_His, F_YmdHi, F_YmdHis, F_Ymd, F_Ymd \o <<" ", "H">>, F_Ymd \o <<" ", "i">>,
     F_Ymd \o <<" ", "s">>, F_Ymd \o <<" ", "H", ":", "s">>}
ParseHours   == {0, 7, 23, 24, 99}
ParseMinutes == {0, 59, 60}
ParseSeconds == {0, 59, 60, 99}

\* texts of a valid day with hours, minutes and seconds in and out of range
TimeCases ==
    {ParseCase("time", f, Written(f, UnitsOf(2024, 2, 29, h, mi, sec)),
               2024, 2, 29, h, mi, sec) :
        f \in TimeFormats, h \in ParseHours, mi \in ParseMinutes, sec \in ParseSeconds}

\* formats with neither d, m and Y nor H and i
PartialFormats ==
    {<<"Y", "-", "m">>, <<"d", ".", "m">>, <<"H">>, <<"i", ":", "s">>, <<"s">>,
     <<"Y", "-", "d", " ", "H">>, <<"m", "/", "Y", " ", "i">>, <<>>, <<"-">>}

T_abc == <<"a", "b", "c">>

\* the digits of a well-formed text
GoodUnits == UnitsOf(2024, 2, 29, 23, 59, 59)

\* for a format: the text written as the format says, and others
PartialTexts(f) ==
    {Written(f, GoodUnits), <<>>, T_abc, <<"1", "2">>, Written(F_YmdHis, GoodUnits)}

PartialCases ==
    UNION {{ParseCase("partial", f, t, 2024, 2, 29, 23, 59, 59) : t \in PartialTexts(f)} :
              f \in PartialFormats}

\* formats with a complete date
WholeFormats == {F_dmY, F_Ymd, F_dmY_slash, F_YmdHis}

WholeCase(shape, f, text) == ParseCase(shape, f, text, 2024, 2, 29, 23, 59, 59)

\* the format with another literal at position i
OtherLiteral(f, i, c) == [f EXCEPT ![i] = c]

\* units with too many or too few digits
BadUnits ==
    {[GoodUnits EXCEPT !.Y = <<"2", "0", "2">>],
     [GoodUnits EXCEPT !.Y = <<"0", "2", "0", "2", "4">>],
     [GoodUnits EXCEPT !.Y = <<"2", "4">>],
     [GoodUnits EXCEPT !.m = <<"0", "0", "2">>],
     [GoodUnits EXCEPT !.d = <<"0", "2", "9">>],
     [GoodUnits EXCEPT !.H = <<"0", "2", "3">>]}

\* texts with another literal in the place of one literal of the format
SeparatorCases(f) ==
    {WholeCase("separator", f, Written(OtherLiteral(f, i, c), GoodUnits)) :
        i \in {j \in 1..Len(f) : f[j] \notin TokenLetters}, c \in Separators \cup {" "}}
    \ {WholeCase("separator", f, Written(f, GoodUnits))}

\* texts in which a unit of the format has too many or too few digits
DigitCases(f) ==
    {WholeCase("digits", f, Written(f, u)) : u \in BadUnits}
    \ {WholeCase("digits", f, Written(f, GoodUnits))}

\* well-formed texts, and texts that are not what the format says
WholeCases ==
    {WholeCase("good", f, Written(f, GoodUnits)) : f \in WholeFormats}
    \cup {WholeCase("before", f, <<c>> \o Written(f, GoodUnits)) :
             f \in WholeFormats, c \in {"x", " ", "0", "-"}}
    \cup {WholeCase("after", f, Written(f, GoodUnits) \o <<c>>) :
             f \in WholeFormats, c \in {"x", " ", "0", "-"}}
    \cup UNION {SeparatorCases(f) : f \in WholeFormats}
    \cup UNION {DigitCases(f) : f \in WholeFormats}
    \cup {WholeCase("letters", f, T_abc) : f \in WholeFormats}

ParseCases == DateCases \cup TimeCases \cup PartialCases \cup WholeCases

\* the values of new Date() in string_to_time: among them the 29th, the 30th
\* and the 31st of a month and the 29th of February
ParseBases ==
    BaseDates \cup {Date(2023, 4, 30, 8, 30, 0), Date(2023, 1, 29, 0, 0, 0)}

ParseInit ==
    /\ PageLoaded(FALSE)
    /\ escape_observed = FALSE
    /\ clock \in Clocks
    /\ \E c \in ParseCases, n \in ParseBases : probe = [c EXCEPT !.now = n]

ParseApply ==
    /\ probe.op = "parse"
    /\ probe.stage = "in"
    /\ probe' = [probe EXCEPT !.stage = "out",
                              !.back = string_to_time(probe.text, probe.format, probe.now)]
    /\ UNCHANGED <<calendar, fields, orphans, timers, focused, sinceBlur, clock, log, handler,
                   escape_observed>>

ParseSpec == ParseInit /\ [][ParseApply]_vars

\* string_to_time has returned for a case of the shape
Parsed(shape) == probe.op = "parse" /\ probe.stage = "out" /\ probe.shape = shape

\* the number of days of month m (1..12) of year y under the Gregorian
\* leap-year rule
DaysInMonth(y, m) ==
    IF m = 2 THEN (IF IsLeap(y) THEN 29 ELSE 28)
    ELSE IF m \in {4, 6, 9, 11} THEN 30 ELSE 31

\* C11: for a format with d, m and Y, string_to_time accepts a matching text
\* exactly when the month is in 1..12 and the day is in 1..number of days of
\* that month in that year under the Gregorian leap-year rule.
ValidDatesAccepted ==
    Parsed("date") =>
        ((probe.back # null) <=>
            /\ probe.month \in 1..12
            /\ probe.day >= 1
            /\ probe.day <= DaysInMonth(probe.year, probe.month))

\* the format has the token
Has(format, c) == indexOf(format, c) # -1

\* C18: when the format has both H and i, string_to_time fails unless the hour
\* is in 0..23 and the minute in 0..59, and otherwise the result has them;
\* when it lacks H or i, hour and minute of the result are 0; when the format
\* has s, string_to_time fails unless the second is in 0..59, and when it
\* lacks s the second of the result is 0.  (The date of the text is valid.)
TimeDecoded ==
    Parsed("time") =>
        LET time_ok == Has(probe.format, "H") /\ Has(probe.format, "i")
            with_s  == Has(probe.format, "s")
        IN  /\ (probe.back = null) <=>
                   \/ time_ok /\ (probe.hour \notin 0..23 \/ probe.minute \notin 0..59)
                   \/ with_s /\ probe.second \notin 0..59
            /\ probe.back # null =>
                   /\ probe.back.h  = (IF time_ok THEN probe.hour ELSE 0)
                   /\ probe.back.mi = (IF time_ok THEN probe.minute ELSE 0)
                   /\ probe.back.s  = (IF with_s THEN probe.second ELSE 0)

\* C18: 23:59:59 has been decoded while the clock showed another time.
LastSecondDecoded ==
    /\ Parsed("time")
    /\ probe.format = F_YmdHis
    /\ probe.back # null
    /\ <<probe.back.h, probe.back.mi, probe.back.s>> = <<23, 59, 59>>
    /\ <<probe.now.h, probe.now.mi, probe.now.s>> # <<23, 59, 59>>

\* C19: string_to_time returns no date, whatever the text, when the format
\* has neither all of d, m, Y nor both of H, i.
PartialFormatFails ==
    Parsed("partial") =>
        /\ ~(Has(probe.format, "d") /\ Has(probe.format, "m") /\ Has(probe.format, "Y"))
        /\ ~(Has(probe.format, "H") /\ Has(probe.format, "i"))
        /\ probe.back = null

\* C19: a text that the pattern of such a format matches has been refused.
MatchedPartialRefused ==
    /\ Parsed("partial")
    /\ probe.format = <<"Y", "-", "m">>
    /\ RegExpExec(FormatPattern(probe.format), probe.text).ok
    /\ probe.back = null

\* the shapes of a text that is not what the format says
Malformed == {"before", "after", "separator", "digits", "letters"}

\* C20: string_to_time matches the whole text: a text with a character
\* before or after a well-formed date, with another literal in the place of a
\* separator, with a year of other than 4 digits or another unit of more than
\* 2 digits, or of letters only, yields no date; the well-formed text does.
WholeTextMatched ==
    /\ (probe.op = "parse" /\ probe.stage = "out" /\ probe.shape \in Malformed)
           => probe.back = null
    /\ Parsed("good") =>
           /\ probe.back # null
           /\ <<probe.back.y, probe.back.mo + 1, probe.back.d>>
                  = <<probe.year, probe.month, probe.day>>

\* C20: 29-02.2024 has been refused for the format d.m.Y.
WrongSeparatorRefused ==
    /\ Parsed("separator")
    /\ probe.format = F_dmY
    /\ probe.text = Written(<<"d", "-", "m", ".", "Y">>, GoodUnits)
    /\ probe.back = null

\* What the caller of string_to_time can tell from its result: a Date, or the
\* one value null that every failing return statement yields.
Reported(result) == IF result = null THEN "null" ELSE "Date"

\* C21: a failure of string_to_time is reported with the kind of its cause:
\* InvalidFormat for a format with neither all of d, m, Y nor both of H, i,
\* InvalidDate for a day or month out of range, InvalidTimeComponent for an
\* hour, minute or second out of range, NoMatch for a text the pattern does
\* not match.
FailureKindReported ==
    /\ Parsed("partial") => Reported(probe.back) = "InvalidFormat"
    /\ (Parsed("date") /\ probe.month \notin 1..12)
           => Reported(probe.back) = "InvalidDate"
    /\ (Parsed("time") /\ Has(probe.format, "H") /\ Has(probe.format, "i")
            /\ probe.hour \notin 0..23)
           => Reported(probe.back) = "InvalidTimeComponent"
    /\ Parsed("letters") => Reported(probe.back) = "NoMatch"

----------------------------------------------------------------------------
(* PositionSpec: lookup_scrollable_parent and position_calendar on chosen  *)
(* geometries (src/calendar.js 1881-1938).  A DOMRect holds fractions of a *)
(* pixel: every length is a whole number of half pixels.                   *)

\* n pixels
Px(n) == 2 * n

\* Math.round of a length: the nearest whole pixel, a half goes up
MathRound(v) == ((v + 1) \div 2) * 2

\* No element (the result null of lookup_scrollable_parent), as a position
\* in the chain of ancestors.
NoElement == 0

\* The loop of lookup_scrollable_parent from the i-th ancestor on.  chain is
\* the sequence of the ancestors that are elements, from elm.parentNode
\* upwards; what follows it (the document, or nothing) is not an Element.
RECURSIVE lookup_from(_, _)
lookup_from(chain, i) ==
    IF i > Len(chain) THEN NoElement
    ELSE IF chain[i].overflowY = "auto" \/ chain[i].overflowY = "hidden" THEN i
    ELSE IF chain[i].tagName = "HTML" THEN i
    ELSE lookup_from(chain, i + 1)

\* lookup_scrollable_parent(elm), elm given by the chain of its ancestors
lookup_scrollable_parent(chain) == lookup_from(chain, 1)

\* position_calendar with the bug of never placing the table above the field
TablePosition_below(field_rect, calendar_rect, table_rect, chain) ==
    LET x == MathRound(field_rect.left - calendar_rect.left)
        y == MathRound(field_rect.top - calendar_rect.top) + field_rect.height + Px(2)
        scrollable_parent == lookup_scrollable_parent(chain)
    IN  IF scrollable_parent # NoElement
        THEN LET p == chain[scrollable_parent]
             IN  [x |-> IF calendar_rect.left + x + table_rect.width
                               > p.left + Px(p.clientWidth)
                        THEN x + (field_rect.width - table_rect.width) ELSE x,
                  y |-> y]
        ELSE [x |-> x, y |-> y]

\* position_calendar(field): style.left and style.top of the table, from the
\* rectangles of the field, of the calendar and of its table, and the chain
\* of the ancestors of the calendar.
TablePosition(field_rect, calendar_rect, table_rect, chain) ==
    LET x == MathRound(field_rect.left - calendar_rect.left)
        y == MathRound(field_rect.top - calendar_rect.top) + field_rect.height + Px(2)
        scrollable_parent == lookup_scrollable_parent(chain)
    IN  IF scrollable_parent # NoElement
        THEN LET p == chain[scrollable_parent]
             IN  [x |-> IF calendar_rect.left + x + table_rect.width
                               > p.left + Px(p.clientWidth)
                        THEN x + (field_rect.width - table_rect.width) ELSE x,
                  y |-> IF calendar_rect.top + y + table_rect.height
                               > p.top + Px(p.clientHeight)
                        THEN y - (field_rect.height + table_rect.height + Px(6)) ELSE y]
        ELSE [x |-> x, y |-> y]

Overflows == {"visible", "scroll", "auto", "hidden"}

\* An ancestor: its tag, its computed overflow-y, top and left of its
\* bounding rectangle (half pixels), clientHeight and clientWidth (pixels).
Element(tagName, overflowY, top, left, clientHeight, clientWidth) ==
    [tagName |-> tagName, overflowY |-> overflowY, top |-> top, left |-> left,
     clientHeight |-> clientHeight, clientWidth |-> clientWidth]

HtmlElement(overflowY) == Element("HTML", overflowY, 0, 0, 200, 300)
BodyElement(overflowY) == Element("BODY", overflowY, Px(-40), 0, 300, 400)
DivElement(overflowY)  == Element("DIV", overflowY, Px(10), Px(10) + 1, 120, 160)

\* The ancestors of the calendar: body and html as create_calendar appends
\* it; a div between, when the page has moved it there; a div alone or
\* nothing, when the page has taken it out of the document.
Chains ==
    {<<BodyElement(b), HtmlElement(h)>> : b \in Overflows, h \in Overflows}
    \cup {<<DivElement(o), BodyElement("visible"), HtmlElement("visible")>> : o \in Overflows}
    \cup {<<DivElement(o)>> : o \in Overflows}
    \cup {<<>>}

FieldRects ==
    [left : {Px(20), Px(250), Px(250) + 1}, top : {Px(30), Px(180) + 1},
     width : {Px(100), Px(100) + 1}, height : {Px(20), Px(20) + 1}]
CalendarRects == [left : {0, Px(8)}, top : {0, Px(4) + 1}]
TableRects == {[width |-> Px(140), height |-> Px(120)]}

PositionInit ==
    /\ PageLoaded(FALSE)
    /\ escape_observed = FALSE
    /\ clock \in Clocks
    /\ \E ch \in Chains, f \in FieldRects, c \in CalendarRects, t \in TableRects :
           probe = [op |-> "position", stage |-> "in", chain |-> ch, field_rect |-> f,
                    calendar_rect |-> c, table_rect |-> t,
                    scrollable_parent |-> NoElement, x |-> 0, y |-> 0]

PositionApply ==
    /\ probe.op = "position"
    /\ probe.stage = "in"
    /\ LET at == TablePosition(probe.field_rect, probe.calendar_rect, probe.table_rect,
                               probe.chain)
       IN  probe' = [probe EXCEPT !.stage = "out",
                                  !.scrollable_parent = lookup_scrollable_parent(probe.chain),
                                  !.x = at.x, !.y = at.y]
    /\ UNCHANGED <<calendar, fields, orphans, timers, focused, sinceBlur, clock, log, handler,
                   escape_observed>>

PositionSpec == PositionInit /\ [][PositionApply]_vars

\* position_calendar has returned
Positioned == probe.op = "position" /\ probe.stage = "out"

\* x and y before the adjustments
DefaultX == MathRound(probe.field_rect.left - probe.calendar_rect.left)
DefaultY ==
    MathRound(probe.field_rect.top - probe.calendar_rect.top) + probe.field_rect.height
        + Px(2)

\* the table at the default place does not fit into the ancestor below / to
\* the right
Overflowing(p, what) ==
    IF what = "bottom"
    THEN probe.calendar_rect.top + DefaultY + probe.table_rect.height
             > p.top + Px(p.clientHeight)
    ELSE probe.calendar_rect.left + DefaultX + probe.table_rect.width
             > p.left + Px(p.clientWidth)

Flipped == probe.y = DefaultY - (probe.field_rect.height + probe.table_rect.height + Px(6))
Shifted == probe.x = DefaultX + (probe.field_rect.width - probe.table_rect.width)

\* the formulas of position_calendar, for the ancestor that
\* lookup_scrollable_parent has returned
PlacedByFormulas ==
    LET i == probe.scrollable_parent
    IN  /\ probe.y \in {DefaultY, DefaultY - (probe.field_rect.height
                                              + probe.table_rect.height + Px(6))}
        /\ probe.x \in {DefaultX, DefaultX + (probe.field_rect.width
                                              - probe.table_rect.width)}
        /\ Flipped <=> (i # NoElement /\ Overflowing(probe.chain[i], "bottom"))
        /\ Shifted <=> (i # NoElement /\ Overflowing(probe.chain[i], "right"))

\* how far the right edge of the table is to the right of the right edge of
\* the field
RightEdgeOff ==
    (probe.calendar_rect.left + probe.x + probe.table_rect.width)
        - (probe.field_rect.left + probe.field_rect.width)

\* C22: the table is placed at x = round(field.left - overlay.left),
\* y = round(field.top - overlay.top) + field.height + 2; y is reduced by
\* field.height + table.height + 6 exactly when there is a clipping ancestor
\* and overlay.top + y + table.height exceeds its top + clientHeight, and x is
\* increased by field.width - table.width exactly when there is one and
\* overlay.left + x + table.width exceeds its left + clientWidth; the
\* increased x puts the right edge of the table on the right edge of the
\* field.
TablePlacedRightAligned ==
    Positioned => (PlacedByFormulas /\ (Shifted => RightEdgeOff = 0))

\* C22, amended: as above, but the increased x puts the right edge of the
\* table on the right edge of the field only up to the rounding of x: it is
\* on it when field.left - overlay.left is a whole number of pixels, and half
\* a pixel to the right of it otherwise.
TablePlaced ==
    Positioned =>
        /\ PlacedByFormulas
        /\ Shifted =>
               RightEdgeOff = (IF (probe.field_rect.left - probe.calendar_rect.left) % 2 = 0
                               THEN 0 ELSE 1)

\* C22: the table has been put above the field and moved to the left, for a
\* field whose left edge is at half a pixel.
FlippedAndShifted ==
    /\ Positioned
    /\ probe.scrollable_parent # NoElement
    /\ Flipped /\ Shifted
    /\ probe.field_rect.left = Px(250) + 1
    /\ probe.calendar_rect.left = 0
    /\ probe.field_rect.top = Px(180) + 1

\* the nearest ancestor with overflow-y scroll, auto or hidden, or the root
\* element, from the i-th ancestor on
RECURSIVE ClippingFrom(_, _)
ClippingFrom(chain, i) ==
    IF i > Len(chain) THEN NoElement
    ELSE IF chain[i].overflowY \in {"scroll", "auto", "hidden"} THEN i
    ELSE IF chain[i].tagName = "HTML" THEN i
    ELSE ClippingFrom(chain, i + 1)

\* C23: the ancestor used for positioning is the nearest ancestor whose
\* overflow-y is scroll, auto or hidden, or else the root element; there is
\* none only when the walk finds neither.
ClippingAncestorNearest ==
    Positioned => probe.scrollable_parent = ClippingFrom(probe.chain, 1)

----------------------------------------------------------------------------
(* FormatSpec: time_to_string on chosen dates and formats, among them      *)
(* formats with a token twice and with letters that are no tokens.         *)

FormatFormats ==
    {F_dmY, F_YmdHis, <<"d", "d", ".", "m", "m">>, <<"Y", "Y">>,
     <<"H", "h", ":", "i", "i">>, <<"s", "x", "s">>, <<>>, <<"a", "b", "c">>,
     <<"Y", "m", "d">>, <<"s", "i", "H", " ", "Y", "/", "d", "/", "m", "D">>}

FormatDates ==
    {Date(y, m, d, h, mi, sec) :
        y \in {5, 99, 1999, 2024}, m \in {1, 9, 10, 12}, d \in {1, 9, 10, 28},
        h \in {0, 9, 23}, mi \in {0, 59}, sec \in {5, 10}}
    \cup {null}

FormatInit ==
    /\ PageLoaded(FALSE)
    /\ escape_observed = FALSE
    /\ clock \in Clocks
    /\ \E d \in FormatDates, f \in FormatFormats :
           probe = [op |-> "format", stage |-> "in", date |-> d, format |-> f,
                    text |-> <<>>]

FormatApply ==
    /\ probe.op = "format"
    /\ probe.stage = "in"
    /\ probe' = [probe EXCEPT !.stage = "out",
                              !.text = time_to_string(probe.date, probe.format)]
    /\ UNCHANGED <<calendar, fields, orphans, timers, focused, sinceBlur, clock, log, handler,
                   escape_observed>>

FormatSpec == FormatInit /\ [][FormatApply]_vars

\* time_to_string has returned
Formatted == probe.op = "format" /\ probe.stage = "out"

\* a number below 100 in exactly two digits
TwoDigits(n) == <<DigitChars[(n \div 10) + 1], DigitChars[(n % 10) + 1]>>

\* what stands in the result for the i-th character of the format
Piece(format, i, time) ==
    IF format[i] \in TokenLetters /\ \A j \in 1..(i - 1) : format[j] # format[i]
    THEN CASE format[i] = "d" -> TwoDigits(time.d)
           [] format[i] = "m" -> TwoDigits(time.mo + 1)
           [] format[i] = "Y" -> ToStr(time.y)
           [] format[i] = "H" -> TwoDigits(time.h)
           [] format[i] = "i" -> TwoDigits(time.mi)
           [] format[i] = "s" -> TwoDigits(time.s)
    ELSE <<format[i]>>

RECURSIVE Pieces(_, _, _)
Pieces(format, i, time) ==
    IF i > Len(format) THEN <<>>
    ELSE Piece(format, i, time) \o Pieces(format, i + 1, time)

\* C24: time_to_string returns the format with the first occurrence of each
\* token replaced by the value of the date (day, month, hour, minute, second
\* in exactly two digits, the year as its decimal number) and every other
\* character copied; it returns the empty string when there is no date.
TokensReplacedOnce ==
    Formatted =>
        probe.text = (IF probe.date = null THEN <<>>
                      ELSE Pieces(probe.format, 1, probe.date))

\* C24: 9 September has been written for the format dd.mm: 09d.09m.
SecondTokenCopied ==
    /\ Formatted
    /\ probe.format = <<"d", "d", ".", "m", "m">>
    /\ probe.date # null
    /\ probe.text = <<"0", "9", "d", ".", "0", "9", "m">>

----------------------------------------------------------------------------
(* NavSpec: the handlers of the arrows and of the selectors, two in a row, *)
(* on chosen display dates, with the calendar attached to f1.              *)

\* A use of a control: the control, and the value chosen in a selector.
Use(control, value) == [control |-> control, value |-> value]

Left  == Use("arrow_left", 0)
Right == Use("arrow_right", 0)

NavSteps ==
    {<<Left, Right>>, <<Right, Left>>, <<Left, Left>>, <<Right, Right>>,
     <<Use("month_selector", 0), Use("year_selector", 2034)>>,
     <<Use("month_selector", 1), Use("month_selector", 11)>>,
     <<Use("year_selector", 2014), Use("month_selector", 5)>>,
     <<Use("year_selector", 2023), Use("year_selector", 2024)>>}

NavYears == {50, 100, 1999, 2000, 2024, 2034}

\* the dates displayed at the start: first, middle and last days of every
\* month
NavDates ==
    {Date(y, m, d, 0, 0, 0) : y \in NavYears, m \in 1..12, d \in {1, 15, 28}}
    \cup {Date(y, m, DaysInMonth(y, m), 0, 0, 0) : y \in NavYears, m \in 1..12}

NavInit ==
    /\ clock \in Clocks
    /\ \E d \in NavDates, st \in NavSteps :
           /\ LET w0 == NewWorld([f \in Fields |-> NewField(T_empty, FALSE)])
                  w1 == field_focus(assign(w0, "f1", ConfigB, clock), "f1", clock)
              IN  Reached(set_date(w1, d, clock))
           /\ probe = [op |-> "nav", steps |-> st, start |-> d, shown |-> <<>>]
    /\ handler = NoHandler
    /\ escape_observed = FALSE
    /\ timers = <<>>
    /\ focused = "f1"
    /\ sinceBlur = Delay

\* the handler of the control used
Handle(w, use, now) ==
    CASE use.control = "arrow_left"     -> arrow_left_click(w, now)
      [] use.control = "arrow_right"    -> arrow_right_click(w, now)
      [] use.control = "month_selector" -> month_selector_change(w, use.value, now)
      [] use.control = "year_selector"  -> year_selector_change(w, use.value, now)

NavApply ==
    /\ probe.op = "nav"
    /\ Len(probe.shown) < Len(probe.steps)
    /\ LET w == Handle(Begin, probe.steps[Len(probe.shown) + 1], clock)
       IN  /\ Commit(w)
           /\ probe' = [probe EXCEPT !.shown = Append(@, w.calendar.my_date)]
    /\ UNCHANGED <<timers, focused, sinceBlur, clock, handler, escape_observed>>

NavSpec == NavInit /\ [][NavApply]_vars

\* the months from year 0 to the month of the date
MonthNumber(date) == date.y * 12 + date.mo

\* the date displayed before the k-th use of a control
ShownBefore(k) == IF k = 1 THEN probe.start ELSE probe.shown[k - 1]

\* C30: the left arrow moves the displayed month back by exactly one month
\* and the right arrow forward by exactly one, whatever the day displayed, so
\* that left then right, and right then left, return to the same year and
\* month; the month selector changes the month only, to the month chosen, and
\* the year selector the year only, to the year chosen.
NavigationByOneMonth ==
    probe.op = "nav" =>
        /\ \A k \in 1..Len(probe.shown) :
               LET use    == probe.steps[k]
                   before == ShownBefore(k)
                   after  == probe.shown[k]
               IN  CASE use.control = "arrow_left" ->
                            MonthNumber(after) = MonthNumber(before) - 1
                     [] use.control = "arrow_right" ->
                            MonthNumber(after) = MonthNumber(before) + 1
                     [] use.control = "month_selector" ->
                            after.mo = use.value /\ after.y = before.y
                     [] use.control = "year_selector" ->
                            after.y = use.value /\ after.mo = before.mo
        /\ (Len(probe.shown) = 2 /\ probe.steps \in {<<Left, Right>>, <<Right, Left>>})
               => MonthNumber(probe.shown[2]) = MonthNumber(probe.start)
        /\ Len(probe.shown) > 0 => Displays(calendar, probe.shown[Len(probe.shown)])

----------------------------------------------------------------------------
(* Further properties of the month grid, under GridSpec.                   *)

\* the cells of the grid that show the day (y, mo, d)
CellsShowing(y, mo, d) ==
    {k \in 1..Len(calendar.cells) :
        /\ calendar.cells[k].my_date # null
        /\ calendar.cells[k].my_date.y = y
        /\ calendar.cells[k].my_date.mo = mo
        /\ calendar.cells[k].my_date.d = d}

\* every day of the month of date is in exactly one cell, and the cells of
\* other months, and only they, are marked other_month
MonthShownWhole(date) ==
    /\ Len(calendar.cells) = Rows * Columns
    /\ \A d \in 1..DaysInMonth(date.y, date.mo + 1) :
           Cardinality(CellsShowing(date.y, date.mo, d)) = 1
    /\ \A k \in 1..Len(calendar.cells) :
           /\ calendar.cells[k].my_date # null
           /\ calendar.cells[k].other_month
                  <=> (calendar.cells[k].my_date.mo # date.mo
                           \/ calendar.cells[k].my_date.y # date.y)

\* C31: for every (year, month), each day of the target month appears in
\* exactly one of the 42 cells, and a cell is marked other_month exactly when
\* its (month, year) differs from the target; no month is truncated, not even
\* a month of 31 days whose 1st is a Sunday.
MonthDaysOnceEach ==
    (probe.op = "grid" /\ probe.stage = "out") => MonthShownWhole(probe.date)

\* The same for the years from 101 on, where new Date(year, ...) keeps the year.
MonthDaysOnceEachFrom101 ==
    (probe.op = "grid" /\ probe.stage = "out" /\ probe.date.y > 100)
        => MonthShownWhole(probe.date)

\* January 2023 has 31 days and begins on a Sunday: its 31st is in the grid.
SundayMonthShownWhole ==
    /\ probe.op = "grid"
    /\ probe.stage = "out"
    /\ probe.date.y = 2023
    /\ probe.date.mo = 0
    /\ CellsShowing(2023, 0, 31) = {37}

----------------------------------------------------------------------------
(* Further properties of string_to_time, under ParseSpec.                  *)

\* the text was written from a day that exists
ValidDay(y, m, d) == m \in 1..12 /\ d >= 1 /\ d <= DaysInMonth(y, m)

\* the result is the day (y, m, d)
IsDay(result, y, m, d) ==
    /\ result # null
    /\ result.y = y
    /\ result.mo = m - 1
    /\ result.d = d

\* C32: for every valid (day, month, year) and every base date (the current
\* date the result starts from, among them the 29th, 30th or 31st of a month
\* and the 29th of February of a leap year), string_to_time returns exactly
\* that day, month and year, with no rollover into a neighbouring month.
ValidDatesExactFromAnyBase ==
    (Parsed("date") /\ ValidDay(probe.year, probe.month, probe.day))
        => IsDay(probe.back, probe.year, probe.month, probe.day)

\* Whatever the base date, a date that string_to_time returns is the day of
\* the text: the setters in the order month 0, year, day, month do not roll over.
ReturnedDatesExact ==
    (Parsed("date") /\ probe.back # null)
        => IsDay(probe.back, probe.year, probe.month, probe.day)

\* 31.12.2023 read on the 29th of February 2024, 29.02.2024 on the 31st of March
ReadFromLongerMonth ==
    /\ Parsed("date")
    /\ \/ /\ probe.now.mo = 1 /\ probe.now.d = 29
          /\ IsDay(probe.back, 2023, 12, 31)
       \/ /\ probe.now.mo = 2 /\ probe.now.d = 31
          /\ IsDay(probe.back, 2024, 2, 29)

----------------------------------------------------------------------------
(* Further properties of the overlay and of the handlers of a field.       *)

\* a field owns the overlay
Attached(cal) == cal.my_field # NoField

\* C33: in every state reached after an event handler completes, the overlay
\* is visible if and only if a field is attached, and i_am_still_active being
\* true implies that the overlay is visible and attached (the internal
\* controls receive the focus only while the overlay is visible).
VisibleIffAttached ==
    calendar # null =>
        /\ Visible(calendar) <=> Attached(calendar)
        /\ calendar.i_am_still_active => (Visible(calendar) /\ Attached(calendar))

\* C33: the overlay has been shown for f2, a control of it has taken the
\* focus after the blur of f2, and the check of that blur is still pending.
ActiveUnderPendingCheck ==
    /\ calendar # null
    /\ focused \in Controls
    /\ calendar.i_am_still_active
    /\ Visible(calendar)
    /\ calendar.my_field = "f2"
    /\ timers # <<>>

\* the step is a keyup event on the registered field f
KeyUpOn(f) == focused = f /\ fields[f].handlers > 0 /\ \E t \in Texts : KeyUp(f, t)

\* C34: whenever the keyup handler of a registered field runs
\* set_date_from_field, a field is attached to the overlay, whatever focus,
\* blur, key, Escape, cell-pick and timer events came before, also for a
\* read-only field that holds the focus: the handler never fails on a missing
\* attached field.
KeyupHasAttachedField ==
    [][\A f \in Fields :
           KeyUpOn(f) => (calendar.my_field # NoField /\ ~log'.error)]_vars

\* The same for a field that is not read-only, as long as neither the Escape
\* key nor a click on a day has hidden the overlay under the focus.
KeyupHasAttachedFieldWhileShown ==
    [][\A f \in Fields :
           (Visible(calendar) /\ KeyUpOn(f))
               => (calendar.my_field = f /\ ~log'.error)]_vars

\* the step is a blur event on the registered field f
BlurOn(f) == focused = f /\ fields[f].handlers > 0 /\ FieldBlur(f)

\* C35: the blur handler of a registered field completes for every history:
\* when it runs the field has its reference to the overlay (field.my_calendar
\* is set), so that the flag is cleared, the text is validated again and the
\* deferred check is scheduled, also for a field that received the focus
\* while read-only and was therefore never attached.
BlurHandlerCompletes ==
    [][\A f \in Fields :
           BlurOn(f) => /\ fields[f].my_calendar
                        /\ ~log'.error
                        /\ ~calendar'.i_am_still_active
                        /\ Len(timers') > Len(timers)]_vars

\* The same for a field that has been attached to the overlay before.
BlurHandlerCompletesOnceAttached ==
    [][\A f \in Fields :
           (fields[f].my_calendar /\ BlurOn(f))
               => /\ ~log'.error
                  /\ ~calendar'.i_am_still_active
                  /\ Len(timers') > Len(timers)]_vars

\* the step is a focus event on the registered field f, read-only or disabled
LockedFocusOn(f) ==
    /\ focused = "none"
    /\ fields[f].handlers > 0
    /\ fields[f].readOnly \/ fields[f].disabled
    /\ FieldFocus(f)

\* C36: a focus event on a registered field that is read-only or disabled
\* never makes the overlay visible and never attaches that field; it hides and
\* detaches the overlay if it was attached to any field.
LockedFieldFocusHides ==
    [][\A f \in Fields :
           LockedFocusOn(f) => /\ ~Visible(calendar')
                               /\ calendar'.my_field = NoField
                               /\ ~fields'[f].my_calendar
                               /\ \A g \in Fields : LiveOf(fields', g) = <<>>]_vars

\* C36: the read-only field f2 has taken the focus while the overlay was
\* visible and attached to f1, before the check of the blur of f1 has fired:
\* the overlay is hidden and detached.
LockedFieldHidOverlay ==
    /\ focused = "f2"
    /\ fields["f2"].readOnly
    /\ timers # <<>>
    /\ Head(timers).att = "f1"
    /\ Head(timers).byField
    /\ Head(timers).focus
    /\ ~Head(timers).hidden
    /\ Hidden(calendar)
    /\ fields["f1"].my_calendar
    /\ LiveOf(fields, "f1") = <<>>

\* the year is one of the options of the year selector for the field
YearOffered(f, y) ==
    /\ y >= fields[f].calendar_config.start_year
    /\ y <= fields[f].calendar_config.end_year

\* the year displayed is one of the options, and the year selector shows it
DisplayYearOffered ==
    (calendar # null /\ calendar.my_field # NoField /\ calendar.my_date # null) =>
        /\ YearOffered(calendar.my_field, calendar.my_date.y)
        /\ calendar.year_selector = calendar.my_date.y

\* C37: while a field is attached, the year displayed stays within the
\* start_year..end_year of the configuration of that field, whatever arrow
\* clicks, selector changes, keyups and attaches come, so that the year
\* selector always has an option for the year displayed.  (Under NavSpec:
\* from a display date within the years of f1, after every use of a control.)
DisplayYearInRange ==
    (probe.op = "nav" /\ YearOffered("f1", probe.start.y)) => DisplayYearOffered

\* The selectors alone never leave the years of the field.
SelectorsStayInRange ==
    (probe.op = "nav" /\ YearOffered("f1", probe.start.y)
         /\ \A k \in 1..Len(probe.steps) :
                probe.steps[k].control \in {"month_selector", "year_selector"})
        => DisplayYearOffered

\* the step is an event whose handlers called the hide/show callback
CallbackInvoked == handler' = handler /\ log'.notified >= 1

\* C38: the hide/show callback is invoked only when the visibility of the
\* overlay actually changes: for every sequence of focus, blur, cell-pick,
\* Escape and timer events, each invocation coincides with a change of
\* visible from false to true or from true to false.
NotifiedOnlyOnVisibilityChange ==
    [][CallbackInvoked
           => (log'.notified = 1 /\ Visible(calendar') # Visible(calendar))]_vars

====
